---- MODULE Spec2Model ----
(***************************************************************************)
(* State-machine model of the solana-dao on-chain program                  *)
(* (programs/solana-dao/src/lib.rs): the registry, group, proposal and     *)
(* user-account records, and the instructions that create and mutate them. *)
(*                                                                         *)
(* Strings are sequences of bytes.  A program-derived address is modelled  *)
(* by the seeds it is derived from (the hash is taken to be injective).    *)
(* One action is one instruction: account validation (the #[derive(        *)
(* Accounts)] struct), the handler body, and the write-back of the         *)
(* accounts into their fixed-size slots.  A failing instruction changes no *)
(* account (the runtime discards its writes).                              *)
(*                                                                         *)
(* Account validation runs in the order Anchor generates it: accounts      *)
(* without init are loaded first, then every init account is created at    *)
(* its derived address, then the constraint = ... expressions are checked, *)
(* and only then the handler runs.  The result of the last instruction is  *)
(* kept in the variable last, with the arguments it was called with.       *)
(***************************************************************************)
EXTENDS Integers, Sequences, FiniteSets, TLC

VARIABLES now, registry, groups, proposals, users, last, user_seeds, tasks

vars == <<now, registry, groups, proposals, users, last, user_seeds, tasks>>

store == <<registry, groups, proposals, users>>

(* The front end's state: the seed cache behind its mutex and the position *)
(* of every running handler                                               *)
bot == <<user_seeds, tasks>>

----------------------------------------------------------------------------
(* Bounds of the model *)

(* The clock runs from 0 to MaxTime *)
MaxTime == 3

(* The largest balance a voter account holds *)
MaxLamports == 5

----------------------------------------------------------------------------
(* Byte strings *)

Rep(n, c) == [i \in 1..n |-> c]

RECURSIVE SumSeq(_)
SumSeq(s) == IF s = <<>> THEN 0 ELSE Head(s) + SumSeq(Tail(s))

(* An address that holds no account *)
None == [none |-> TRUE]

(* Identities (public keys) that sign instructions or are named in them *)
Keys == {"O", "U1"}

(* Option<Pubkey> values of token_mint; NativeMint is the wrapped-SOL mint *)
NativeMint == "So11111111111111111111111111111111111111112"

OtherMint == "SplMint"

NoMint == "None"

Mints == {NoMint, NativeMint, OtherMint}

(* Group ids: "g1", one of 33 bytes (longer than a seed may be) and one *)
(* of 51 bytes                                                          *)
G1 == <<103, 49>>

G2 == <<103, 50>>

G33 == Rep(33, 103)

GLong == Rep(51, 103)

GroupIds == {G1, G33, GLong}

(* Names and descriptions of groups *)
NameOk == <<78>>

NameLong == Rep(101, 78)

DescOk == <<68>>

DescLong == Rep(501, 68)

GroupPayloads == {[name |-> NameOk, description |-> DescOk],
                  [name |-> NameLong, description |-> DescOk],
                  [name |-> NameOk, description |-> DescLong]}

(* Proposal ids: "p1" (2 bytes), "aaaaaaaa", "aaaaaaaab" (same first 8    *)
(* bytes), and one of 51 bytes                                            *)
P1 == <<112, 49>>

PA == Rep(8, 97)

PB == Rep(8, 97) \o <<98>>

(* differs from PA and PB in its 8th byte *)
PC == Rep(7, 97) \o <<99>>

PLong == Rep(51, 97)

(* Telegram ids *)
TelegramIds == {1, 2}

(* Payloads (title, description, choices) of create_proposal *)
Lbl(c) == <<c>>

PaySmall == [title |-> <<84>>, description |-> <<68>>,
             choices |-> <<Lbl(65), Lbl(66)>>]

PayBig == [title |-> Rep(200, 84), description |-> Rep(1000, 68),
           choices |-> <<Lbl(65), Lbl(66)>>]

PayBig10 == [title |-> Rep(200, 84), description |-> Rep(1000, 68),
             choices |-> [i \in 1..10 |-> Lbl(64 + i)]]

PayTitleLong == [PaySmall EXCEPT !.title = Rep(201, 84)]

PayDescLong == [PaySmall EXCEPT !.description = Rep(1001, 68)]

PayOneChoice == [PaySmall EXCEPT !.choices = <<Lbl(65)>>]

PayElevenChoices == [PaySmall EXCEPT !.choices = [i \in 1..11 |-> Lbl(64 + i)]]

(* a list of two choices whose second label is the empty string *)
PayEmptyLabel == [PaySmall EXCEPT !.choices = <<Lbl(65), <<>>>>]

PayTenChoices == [PaySmall EXCEPT !.choices = [i \in 1..10 |-> Lbl(64 + i)]]

----------------------------------------------------------------------------
(* Program-derived addresses *)

(* The bump found by the search from 255 downward is a fixed function of *)
(* the seeds; which value it is does not matter to the program.          *)
BumpOf(seeds) == 255 - (Len(seeds) % 2)

RegistryAddr == [kind |-> "dao_registry"]

GroupAddr(group_id) == [kind |-> "group", seed |-> group_id]

ProposalAddrWholeId(gkey, proposal_id) ==
    [kind |-> "proposal", group |-> gkey, pid8 |-> proposal_id]

(* &group.key().to_bytes()[..8], &proposal_id.as_bytes()[..8] *)
ProposalAddr(gkey, proposal_id) ==
    [kind |-> "proposal", group |-> gkey, pid8 |-> SubSeq(proposal_id, 1, 8)]

UserAddr(telegram_id) == [kind |-> "user_account", seed |-> telegram_id]

MAX_SEED_LEN == 32

SEED_PREFIX == 8

GroupAddrs == {GroupAddr(g) : g \in {G1, G2}}

(* The group that proposals and members are administered on *)
ManagedGroupAddrs == {GroupAddr(G1)}

ProposalAddrs == {ProposalAddr(ga, p) : ga \in ManagedGroupAddrs, p \in {PA}}

UserAddrs == {UserAddr(t) : t \in TelegramIds}

(* The seed parts behind each address: byte strings, in the order given *)
(* to the derivation.  An i64 is its 8 little-endian bytes.             *)
RECURSIVE LeBytes(_, _)
LeBytes(n, w) == IF w = 0 THEN <<>> ELSE <<n % 256>> \o LeBytes(n \div 256, w - 1)

(* b"dao_registry", b"group", b"proposal", b"user_account" *)
SeedRegistry == <<100, 97, 111, 95, 114, 101, 103, 105, 115, 116, 114, 121>>

SeedGroup == <<103, 114, 111, 117, 112>>

SeedProposal == <<112, 114, 111, 112, 111, 115, 97, 108>>

SeedUser == <<117, 115, 101, 114, 95, 97, 99, 99, 111, 117, 110, 116>>

RECURSIVE Flatten(_)
Flatten(seeds) == IF seeds = <<>> THEN <<>> ELSE Head(seeds) \o Flatten(Tail(seeds))

RECURSIVE WeightedSum(_, _, _)
WeightedSum(bytes, i, j) ==
    IF j > Len(bytes) THEN 0
    ELSE (bytes[j] * (i + j) + WeightedSum(bytes, i, j + 1)) % 256

(* The 32 bytes of the address derived from the seed parts: a fixed *)
(* function of the seeds that stands for the hash                    *)
PdaBytes(seeds) == [i \in 1..32 |-> WeightedSum(Flatten(seeds), i + Len(seeds), 1)]

(* seeds = [...] of the account structs *)
RECURSIVE SeedsOf(_)
SeedsOf(a) ==
    IF a.kind = "dao_registry" THEN <<SeedRegistry>>
    ELSE IF a.kind = "group" THEN <<SeedGroup, a.seed>>
    ELSE IF a.kind = "proposal"
    THEN <<SeedProposal, SubSeq(PdaBytes(SeedsOf(a.group)), 1, SEED_PREFIX), a.pid8>>
    ELSE <<SeedUser, LeBytes(a.seed, 8)>>

----------------------------------------------------------------------------
(* Slot capacities (the space = ... of each init) and encoded sizes *)

REGISTRY_SPACE == 8 + 32 + 4 + (20 * (4 + 50 + 32 + 32)) + 1

GROUP_SPACE == 8 + 4 + 50 + 4 + 100 + 4 + 500 + 32 + 4 + 4 + 8 + 1

PROPOSAL_SPACE ==
    8 + 4 + 50 + 4 + 50 + 4 + 200 + 4 + 1000 + 4 + 4 + 8 + 8 + 33 + 32 + 4 + 8 + 1

USER_SPACE == 8 + 8 + 32 + 8 + 1

StrSize(s) == 4 + Len(s)

StrVecSize(v) == 4 + SumSeq([i \in 1..Len(v) |-> StrSize(v[i])])

GroupInfoSize(gi) == StrSize(gi.group_id) + 32 + 32

ProposalInfoSize(pi) == StrSize(pi.proposal_id) + 32 + 8

RegistrySize(r) ==
    8 + 32 + 4 + SumSeq([i \in 1..Len(r.groups) |-> GroupInfoSize(r.groups[i])]) + 1

GroupSize(g) ==
    8 + StrSize(g.group_id) + StrSize(g.name) + StrSize(g.description) + 32
      + 4 + SumSeq([i \in 1..Len(g.proposals) |-> ProposalInfoSize(g.proposals[i])])
      + 4 + 40 * Len(g.members) + 8 + 1

ProposalSize(p) ==
    8 + StrSize(p.proposal_id) + StrSize(p.group_id) + StrSize(p.title)
      + StrSize(p.description) + StrVecSize(p.choices)
      + 4 + 8 * Len(p.choice_votes) + 8 + 8
      + (IF p.token_mint = NoMint THEN 1 ELSE 33) + 32
      + 4 + 49 * Len(p.voters) + 8 + 1

----------------------------------------------------------------------------
(* The bytes of a record in its account: 8 bytes of discriminator, then *)
(* the fields in declaration order.  A string is its length in 4        *)
(* little-endian bytes and its text, a list is its length in 4 bytes    *)
(* and its elements, an i64 or u64 is 8 little-endian bytes, a key is   *)
(* 32 bytes, an optional key is a byte 0 or a byte 1 and the key.       *)

(* sha256("account:<Name>")[..8] *)
DiscRegistry == <<182, 39, 16, 182, 109, 194, 206, 16>>

DiscGroup == <<209, 249, 208, 63, 182, 89, 186, 254>>

DiscProposal == <<26, 94, 189, 187, 116, 136, 53, 33>>

DiscUser == <<211, 33, 136, 16, 186, 110, 242, 127>>

(* The 32 bytes of a signer's key, of a mint and of a derived address *)
KeyBytes(k) == IF k = "O" THEN Rep(32, 79) ELSE Rep(32, 85)

MintBytes(m) == IF m = NativeMint THEN <<6, 155>> \o Rep(30, 1) ELSE Rep(32, 77)

AddrBytes(a) == PdaBytes(SeedsOf(a))

EncU32(n) == LeBytes(n, 4)

EncI64(n) == LeBytes(n, 8)

EncString(s) == EncU32(Len(s)) \o s

EncGroupInfo(gi) ==
    EncString(gi.group_id) \o KeyBytes(gi.authority) \o AddrBytes(gi.pubkey)

EncProposalInfo(pi) ==
    EncString(pi.proposal_id) \o AddrBytes(pi.pubkey) \o EncI64(pi.created_at)

EncGroupMember(m) == KeyBytes(m.pubkey) \o EncI64(m.joined_at)

EncVoterInfo(v) ==
    KeyBytes(v.voter) \o <<v.choice>> \o EncI64(v.vote_weight) \o EncI64(v.timestamp)

EncOptionMint(m) == IF m = NoMint THEN <<0>> ELSE <<1>> \o MintBytes(m)

EncDaoRegistry(r) ==
    KeyBytes(r.authority)
      \o EncU32(Len(r.groups))
      \o Flatten([i \in 1..Len(r.groups) |-> EncGroupInfo(r.groups[i])])
      \o <<r.bump>>

EncGroup(g) ==
    EncString(g.group_id) \o EncString(g.name) \o EncString(g.description)
      \o KeyBytes(g.authority)
      \o EncU32(Len(g.proposals))
      \o Flatten([i \in 1..Len(g.proposals) |-> EncProposalInfo(g.proposals[i])])
      \o EncU32(Len(g.members))
      \o Flatten([i \in 1..Len(g.members) |-> EncGroupMember(g.members[i])])
      \o EncI64(g.created_at) \o <<g.bump>>

EncProposal(p) ==
    EncString(p.proposal_id) \o EncString(p.group_id) \o EncString(p.title)
      \o EncString(p.description)
      \o EncU32(Len(p.choices))
      \o Flatten([i \in 1..Len(p.choices) |-> EncString(p.choices[i])])
      \o EncU32(Len(p.choice_votes))
      \o Flatten([i \in 1..Len(p.choice_votes) |-> EncI64(p.choice_votes[i])])
      \o EncI64(p.voting_start) \o EncI64(p.voting_end)
      \o EncOptionMint(p.token_mint) \o KeyBytes(p.creator)
      \o EncU32(Len(p.voters))
      \o Flatten([i \in 1..Len(p.voters) |-> EncVoterInfo(p.voters[i])])
      \o EncI64(p.created_at) \o <<p.bump>>

EncUserAccount(u) ==
    EncI64(u.telegram_id) \o KeyBytes(u.wallet_pubkey) \o EncI64(u.created_at)
      \o <<u.bump>>

(* A new account: space bytes, all zero *)
ZeroSlot(space) == Rep(space, 0)

(* Writing a record back on exit: the discriminator and the encoding go *)
(* over the start of the account; the bytes behind them stay as they   *)
(* were                                                                 *)
WriteBack(slot, bytes) == bytes \o SubSeq(slot, Len(bytes) + 1, Len(slot))

(* Reading: every reader takes the bytes that are left and returns *)
(* whether it succeeded, the value read and the bytes behind it    *)
ReadFail == [ok |-> FALSE, v |-> <<>>, rest |-> <<>>]

ReadOk(v, rest) == [ok |-> TRUE, v |-> v, rest |-> rest]

Drop(b, n) == SubSeq(b, n + 1, Len(b))

ReadBytes(b, n) ==
    IF Len(b) < n THEN ReadFail ELSE ReadOk(SubSeq(b, 1, n), Drop(b, n))

(* A length of 65536 or more is longer than any account of the program *)
TooLong == 65536

ReadU32(b) ==
    IF Len(b) < 4 THEN ReadFail
    ELSE ReadOk(IF b[3] # 0 \/ b[4] # 0 THEN TooLong ELSE b[1] + 256 * b[2],
                Drop(b, 4))

(* The text of the model is ASCII: a byte of 128 or more is taken as *)
(* text that is not UTF-8                                            *)
ValidUtf8(s) == \A i \in 1..Len(s) : s[i] < 128

ReadString(b) ==
    LET n == ReadU32(b)
        s == IF n.ok THEN ReadBytes(n.rest, n.v) ELSE ReadFail
    IN  IF s.ok /\ ValidUtf8(s.v) THEN s ELSE ReadFail

ReadOptionPubkey(b) ==
    IF Len(b) < 1 THEN ReadFail
    ELSE IF b[1] = 0 THEN ReadOk(<<>>, Drop(b, 1))
    ELSE IF b[1] = 1 THEN ReadBytes(Drop(b, 1), 32)
    ELSE ReadFail

ReadU8(b) == IF Len(b) < 1 THEN ReadFail ELSE ReadOk(b[1], Drop(b, 1))

(* The field types of the structs *)
TString == [t |-> "string"]

TPubkey == [t |-> "pubkey"]

TI64 == [t |-> "i64"]

TU8 == [t |-> "u8"]

TOptionPubkey == [t |-> "option_pubkey"]

TVec(fields) == [t |-> "vec", of |-> fields]

ReadPrimitive(ty, b) ==
    IF ty.t = "string" THEN ReadString(b)
    ELSE IF ty.t = "pubkey" THEN ReadBytes(b, 32)
    ELSE IF ty.t = "i64" THEN ReadBytes(b, 8)
    ELSE IF ty.t = "u8" THEN ReadU8(b)
    ELSE ReadOptionPubkey(b)

(* Reading the fields of a struct one after the other: the state is *)
(* whether all went well, the values read and the bytes that are left *)
FieldsFail == [ok |-> FALSE, vals |-> <<>>, rest |-> <<>>]

FieldsOk(vals, rest) == [ok |-> TRUE, vals |-> vals, rest |-> rest]

RECURSIVE ReadFields(_, _, _)
RECURSIVE ReadField(_, _)
RECURSIVE ReadElems(_, _, _)

ReadFields(fields, i, st) ==
    IF i > Len(fields) \/ ~st.ok THEN st
    ELSE ReadFields(fields, i + 1, ReadField(fields[i], st))

ReadField(ty, st) ==
    IF ty.t = "vec"
    THEN LET n == ReadU32(st.rest)
             es == IF n.ok THEN ReadElems(ty.of, n.v, FieldsOk(<<>>, n.rest))
                   ELSE FieldsFail
         IN  IF es.ok THEN FieldsOk(Append(st.vals, es.vals), es.rest) ELSE FieldsFail
    ELSE LET r == ReadPrimitive(ty, st.rest)
         IN  IF r.ok THEN FieldsOk(Append(st.vals, r.v), r.rest) ELSE FieldsFail

ReadElems(fields, n, st) ==
    IF n = 0 \/ ~st.ok THEN st
    ELSE LET e == ReadFields(fields, 1, FieldsOk(<<>>, st.rest))
         IN  IF e.ok
             THEN ReadElems(fields, n - 1, FieldsOk(Append(st.vals, e.vals), e.rest))
             ELSE FieldsFail

ReadStruct(fields, b) == ReadFields(fields, 1, FieldsOk(<<>>, b))

(* The structs of the bot, field by field *)
GroupInfoFields == <<TString, TPubkey, TPubkey>>

ProposalInfoFields == <<TString, TPubkey, TI64>>

GroupMemberFields == <<TPubkey, TI64>>

VoterInfoFields == <<TPubkey, TU8, TI64, TI64>>

DaoRegistryFields == <<TPubkey, TVec(GroupInfoFields), TU8>>

GroupFields ==
    <<TString, TString, TString, TPubkey, TVec(ProposalInfoFields),
      TVec(GroupMemberFields), TI64, TU8>>

ProposalFields ==
    <<TString, TString, TString, TString, TVec(<<TString>>), TVec(<<TI64>>),
      TI64, TI64, TOptionPubkey, TPubkey, TVec(VoterInfoFields), TI64, TU8>>

UserAccountFields == <<TI64, TPubkey, TI64, TU8>>

AsGroupInfo(v) == [group_id |-> v[1], authority |-> v[2], pubkey |-> v[3]]

AsProposalInfo(v) == [proposal_id |-> v[1], pubkey |-> v[2], created_at |-> v[3]]

AsGroupMember(v) == [pubkey |-> v[1], joined_at |-> v[2]]

AsVoterInfo(v) ==
    [voter |-> v[1], choice |-> v[2], vote_weight |-> v[3], timestamp |-> v[4]]

AsDaoRegistry(v) ==
    [authority |-> v[1],
     groups |-> [i \in 1..Len(v[2]) |-> AsGroupInfo(v[2][i])],
     bump |-> v[3]]

AsGroup(v) ==
    [group_id |-> v[1], name |-> v[2], description |-> v[3], authority |-> v[4],
     proposals |-> [i \in 1..Len(v[5]) |-> AsProposalInfo(v[5][i])],
     members |-> [i \in 1..Len(v[6]) |-> AsGroupMember(v[6][i])],
     created_at |-> v[7], bump |-> v[8]]

AsProposal(v) ==
    [proposal_id |-> v[1], group_id |-> v[2], title |-> v[3], description |-> v[4],
     choices |-> [i \in 1..Len(v[5]) |-> v[5][i][1]],
     choice_votes |-> [i \in 1..Len(v[6]) |-> v[6][i][1]],
     voting_start |-> v[7], voting_end |-> v[8], token_mint |-> v[9],
     creator |-> v[10],
     voters |-> [i \in 1..Len(v[11]) |-> AsVoterInfo(v[11][i])],
     created_at |-> v[12], bump |-> v[13]]

AsUserAccount(v) ==
    [telegram_id |-> v[1], wallet_pubkey |-> v[2], created_at |-> v[3], bump |-> v[4]]

ReadDaoRegistry(b) ==
    LET st == ReadStruct(DaoRegistryFields, b)
    IN  IF st.ok THEN ReadOk(AsDaoRegistry(st.vals), st.rest) ELSE ReadFail

ReadGroup(b) ==
    LET st == ReadStruct(GroupFields, b)
    IN  IF st.ok THEN ReadOk(AsGroup(st.vals), st.rest) ELSE ReadFail

ReadProposal(b) ==
    LET st == ReadStruct(ProposalFields, b)
    IN  IF st.ok THEN ReadOk(AsProposal(st.vals), st.rest) ELSE ReadFail

ReadUserAccount(b) ==
    LET st == ReadStruct(UserAccountFields, b)
    IN  IF st.ok THEN ReadOk(AsUserAccount(st.vals), st.rest) ELSE ReadFail

(* The value of a record as the bot's structs hold it: each field by *)
(* the bytes that stand for it                                       *)
ValGroupInfo(gi) ==
    [group_id |-> gi.group_id, authority |-> KeyBytes(gi.authority),
     pubkey |-> AddrBytes(gi.pubkey)]

ValProposalInfo(pi) ==
    [proposal_id |-> pi.proposal_id, pubkey |-> AddrBytes(pi.pubkey),
     created_at |-> EncI64(pi.created_at)]

ValDaoRegistry(r) ==
    [authority |-> KeyBytes(r.authority),
     groups |-> [i \in 1..Len(r.groups) |-> ValGroupInfo(r.groups[i])],
     bump |-> r.bump]

ValGroup(g) ==
    [group_id |-> g.group_id, name |-> g.name, description |-> g.description,
     authority |-> KeyBytes(g.authority),
     proposals |-> [i \in 1..Len(g.proposals) |-> ValProposalInfo(g.proposals[i])],
     members |-> [i \in 1..Len(g.members) |->
                     [pubkey |-> KeyBytes(g.members[i].pubkey),
                      joined_at |-> EncI64(g.members[i].joined_at)]],
     created_at |-> EncI64(g.created_at), bump |-> g.bump]

ValProposal(p) ==
    [proposal_id |-> p.proposal_id, group_id |-> p.group_id, title |-> p.title,
     description |-> p.description, choices |-> p.choices,
     choice_votes |-> [i \in 1..Len(p.choice_votes) |-> EncI64(p.choice_votes[i])],
     voting_start |-> EncI64(p.voting_start), voting_end |-> EncI64(p.voting_end),
     token_mint |-> IF p.token_mint = NoMint THEN <<>> ELSE MintBytes(p.token_mint),
     creator |-> KeyBytes(p.creator),
     voters |-> [i \in 1..Len(p.voters) |->
                    [voter |-> KeyBytes(p.voters[i].voter),
                     choice |-> p.voters[i].choice,
                     vote_weight |-> EncI64(p.voters[i].vote_weight),
                     timestamp |-> EncI64(p.voters[i].timestamp)]],
     created_at |-> EncI64(p.created_at), bump |-> p.bump]

ValUserAccount(u) ==
    [telegram_id |-> EncI64(u.telegram_id), wallet_pubkey |-> KeyBytes(u.wallet_pubkey),
     created_at |-> EncI64(u.created_at), bump |-> u.bump]

(* The two ways the bot decodes an account.                              *)
(* By hand: the first 8 bytes are skipped unread, the zero bytes at the  *)
(* end are cut off (nothing is cut if every byte is zero), and the rest  *)
(* must decode with no byte left over.                                   *)
(* Through the client's account(): the struct is read from the first     *)
(* byte of the account on, and bytes left over are ignored.              *)
ActualDataLen(data) ==
    IF \A i \in 1..Len(data) : data[i] = 0 THEN Len(data)
    ELSE CHOOSE i \in 1..Len(data) :
            data[i] # 0 /\ \A j \in (i + 1)..Len(data) : data[j] = 0

ActualData(account_data) ==
    LET data == Drop(account_data, 8) IN SubSeq(data, 1, ActualDataLen(data))

DecodeError == [err |-> "DeserializeError"]

Decoded(v) == [err |-> "Ok", value |-> v]

TryFromSlice(r) == IF r.ok /\ r.rest = <<>> THEN Decoded(r.v) ELSE DecodeError

TryDeserialize(r) == IF r.ok THEN Decoded(r.v) ELSE DecodeError

TooShort == [err |-> "TooShort"]

ManualDaoRegistry(account_data) ==
    IF Len(account_data) < 8 THEN TooShort
    ELSE TryFromSlice(ReadDaoRegistry(ActualData(account_data)))

ManualGroup(account_data) ==
    IF Len(account_data) < 8 THEN TooShort
    ELSE TryFromSlice(ReadGroup(ActualData(account_data)))

ManualProposalPadded(account_data) ==
    TryDeserialize(ReadProposal(Drop(account_data, 8)))

ManualProposal(account_data) ==
    IF Len(account_data) < 8 THEN TooShort
    ELSE TryFromSlice(ReadProposal(ActualData(account_data)))

ClientUserAccount(account_data) == TryDeserialize(ReadUserAccount(account_data))

ClientGroup(account_data) == TryDeserialize(ReadGroup(account_data))

ClientDaoRegistry(account_data) == TryDeserialize(ReadDaoRegistry(account_data))

----------------------------------------------------------------------------
(* The front end (bot/src/main.rs): BotState and its handlers.  Each     *)
(* command is handled by its own task; tasks of different chats run       *)
(* concurrently and share user_seeds, a map behind one tokio Mutex.       *)

NumTasks == 2

Tasks == 1..NumTasks

(* user_seeds: Arc::new(Mutex::new(HashMap::new())) *)
(* guard: the set of tasks holding the MutexGuard, at most one *)
EmptySeeds == [guard |-> {}, map |-> [t \in TelegramIds |-> None]]

Idle == [fn |-> "idle", pc |-> "idle", telegram_id |-> 0, res |-> "none"]

IdleTasks == [k \in Tasks |-> Idle]

----------------------------------------------------------------------------
(* Initial state: no account exists *)

NoCall == [op |-> "none", res |-> "none"]

Init ==
    /\ now = 0
    /\ user_seeds = EmptySeeds
    /\ tasks = IdleTasks
    /\ registry = None
    /\ groups = [a \in GroupAddrs |-> None]
    /\ proposals = [a \in ProposalAddrs |-> None]
    /\ users = [a \in UserAddrs |-> None]
    /\ last = NoCall

(* The cluster clock advances *)
Tick ==
    /\ now < MaxTime
    /\ now' = now + 1
    /\ UNCHANGED bot
    /\ last' = NoCall
    /\ UNCHANGED store

----------------------------------------------------------------------------
(* initialize *)

InitializeResult ==
    IF registry # None THEN "AlreadyExists" ELSE "Ok"

Initialize(authority) ==
    LET res == InitializeResult IN
    /\ UNCHANGED bot
    /\ last' = [op |-> "initialize", res |-> res, signer |-> authority]
    /\ registry' = IF res = "Ok"
                   THEN [authority |-> authority, groups |-> <<>>,
                         bump |-> BumpOf(<<"dao_registry">>)]
                   ELSE registry
    /\ UNCHANGED <<now, groups, proposals, users>>

----------------------------------------------------------------------------
(* create_group *)

(* Account validation of CreateGroup: dao_registry is loaded, then the  *)
(* group account is created at the address derived from                 *)
(* [b"group", group_id]; a seed longer than 32 bytes has no address.    *)
CreateGroupAccountsIfNeeded(group_id) ==
    IF registry = None THEN "AccountNotInitialized"
    ELSE IF Len(group_id) > MAX_SEED_LEN THEN "ProgramFailedToComplete"
    ELSE "Ok"

CreateGroupAccounts(group_id) ==
    IF registry = None THEN "AccountNotInitialized"
    ELSE IF Len(group_id) > MAX_SEED_LEN THEN "ProgramFailedToComplete"
    ELSE IF groups[GroupAddr(group_id)] # None THEN "AlreadyExists"
    ELSE "Ok"

CreateGroupChecks(group_id, name, description) ==
    IF ~(Len(group_id) <= 50) THEN "GroupIdTooLong"
    ELSE IF ~(Len(name) <= 100) THEN "NameTooLong"
    ELSE IF ~(Len(description) <= 500) THEN "DescriptionTooLong"
    ELSE "Ok"

NewGroup(group_id, name, description, authority) ==
    [group_id |-> group_id, name |-> name, description |-> description,
     authority |-> authority, proposals |-> <<>>, members |-> <<>>,
     created_at |-> now, bump |-> BumpOf(<<"group", group_id>>)]

RegistryWithGroupListedTwice(r, group_id, authority) ==
    [r EXCEPT !.groups = Append(Append(@, [group_id |-> group_id,
                                           authority |-> authority,
                                           pubkey |-> GroupAddr(group_id)]),
                                [group_id |-> group_id,
                                 authority |-> authority,
                                 pubkey |-> GroupAddr(group_id)])]

RegistryWithGroup(r, group_id, authority) ==
    [r EXCEPT !.groups = Append(@, [group_id |-> group_id,
                                    authority |-> authority,
                                    pubkey |-> GroupAddr(group_id)])]

CreateGroupResultNoRegistryCap(group_id, name, description, authority) ==
    LET acc == CreateGroupAccounts(group_id)
        chk == CreateGroupChecks(group_id, name, description)
    IN  IF acc # "Ok" THEN acc
        ELSE IF chk # "Ok" THEN chk
        ELSE IF GroupSize(NewGroup(group_id, name, description, authority))
                    > GROUP_SPACE
             THEN "AccountDidNotSerialize"
        ELSE "Ok"

CreateGroupResult(group_id, name, description, authority) ==
    LET acc == CreateGroupAccounts(group_id)
        chk == CreateGroupChecks(group_id, name, description)
    IN  IF acc # "Ok" THEN acc
        ELSE IF chk # "Ok" THEN chk
        ELSE IF GroupSize(NewGroup(group_id, name, description, authority))
                    > GROUP_SPACE
             THEN "AccountDidNotSerialize"
        ELSE IF RegistrySize(RegistryWithGroup(registry, group_id, authority))
                    > REGISTRY_SPACE
             THEN "AccountDidNotSerialize"
        ELSE "Ok"

CreateGroup(group_id, name, description, authority) ==
    LET res == CreateGroupResult(group_id, name, description, authority) IN
    /\ UNCHANGED bot
    /\ last' = [op |-> "create_group", res |-> res, signer |-> authority,
                group_id |-> group_id, name_len |-> Len(name),
                description_len |-> Len(description)]
    /\ IF res = "Ok"
       THEN /\ groups' = [groups EXCEPT ![GroupAddr(group_id)] =
                            NewGroup(group_id, name, description, authority)]
            /\ registry' = RegistryWithGroup(registry, group_id, authority)
       ELSE UNCHANGED <<groups, registry>>
    /\ UNCHANGED <<now, proposals, users>>

----------------------------------------------------------------------------
(* create_proposal *)

(* Account validation of CreateProposal, in the order it runs: the group *)
(* account is loaded; the proposal account is created at the address     *)
(* derived from the seeds (slicing [..8] of an id shorter than 8 bytes   *)
(* panics); then the constraint on the group's authority is checked.     *)
CreateProposalAccountsOverwrite(gaddr, proposal_id, authority) ==
    IF groups[gaddr] = None THEN "AccountNotInitialized"
    ELSE IF Len(proposal_id) < SEED_PREFIX THEN "ProgramFailedToComplete"
    ELSE IF ~(groups[gaddr].authority = authority) THEN "Unauthorized"
    ELSE "Ok"

CreateProposalAccountsNoConstraint(gaddr, proposal_id, authority) ==
    IF groups[gaddr] = None THEN "AccountNotInitialized"
    ELSE IF Len(proposal_id) < SEED_PREFIX THEN "ProgramFailedToComplete"
    ELSE IF proposals[ProposalAddr(gaddr, proposal_id)] # None
         THEN "AlreadyExists"
    ELSE "Ok"

CreateProposalAccounts(gaddr, proposal_id, authority) ==
    IF groups[gaddr] = None THEN "AccountNotInitialized"
    ELSE IF Len(proposal_id) < SEED_PREFIX THEN "ProgramFailedToComplete"
    ELSE IF proposals[ProposalAddr(gaddr, proposal_id)] # None
         THEN "AlreadyExists"
    ELSE IF ~(groups[gaddr].authority = authority) THEN "Unauthorized"
    ELSE "Ok"

ValidChoiceCountFromOne(choices) == Len(choices) >= 1 /\ Len(choices) <= 10

ValidChoiceCount(choices) == Len(choices) >= 2 /\ Len(choices) <= 10

ValidVotingPeriod(voting_start, voting_end) == voting_start < voting_end

VotingStartNotPast(voting_start, t) == voting_start >= t

VotingStartInFuture(voting_start, t) == voting_start > t

CreateProposalChecksGroupIdError(proposal_id, title, description, choices, voting_start, voting_end) ==
    IF ~(Len(proposal_id) <= 50) THEN "GroupIdTooLong"
    ELSE IF ~(Len(title) <= 200) THEN "TitleTooLong"
    ELSE IF ~(Len(description) <= 1000) THEN "DescriptionTooLong"
    ELSE IF ~ValidChoiceCount(choices) THEN "InvalidChoiceCount"
    ELSE IF ~ValidVotingPeriod(voting_start, voting_end)
         THEN "InvalidVotingPeriod"
    ELSE IF ~VotingStartInFuture(voting_start, now) THEN "VotingStartInPast"
    ELSE "Ok"

CreateProposalChecks(proposal_id, title, description, choices, voting_start, voting_end) ==
    IF ~(Len(proposal_id) <= 50) THEN "ProposalIdTooLong"
    ELSE IF ~(Len(title) <= 200) THEN "TitleTooLong"
    ELSE IF ~(Len(description) <= 1000) THEN "DescriptionTooLong"
    ELSE IF ~ValidChoiceCount(choices) THEN "InvalidChoiceCount"
    ELSE IF ~ValidVotingPeriod(voting_start, voting_end)
         THEN "InvalidVotingPeriod"
    ELSE IF ~VotingStartInFuture(voting_start, now) THEN "VotingStartInPast"
    ELSE "Ok"

NewProposal(g, proposal_id, title, description, choices, voting_start, voting_end, token_mint, authority) ==
    [proposal_id |-> proposal_id, group_id |-> g.group_id, title |-> title,
     description |-> description, choices |-> choices,
     choice_votes |-> [i \in 1..Len(choices) |-> 0],
     voting_start |-> voting_start, voting_end |-> voting_end,
     token_mint |-> token_mint, creator |-> authority, voters |-> <<>>,
     created_at |-> now,
     bump |-> BumpOf(<<"proposal", g.group_id, SubSeq(proposal_id, 1, 8)>>)]

GroupWithoutProposalEntry(g, gaddr, proposal_id) == g

GroupWithProposal(g, gaddr, proposal_id) ==
    [g EXCEPT !.proposals = Append(@, [proposal_id |-> proposal_id,
                                       pubkey |-> ProposalAddr(gaddr, proposal_id),
                                       created_at |-> now])]

CreateProposalResult(gaddr, proposal_id, title, description, choices, voting_start, voting_end, token_mint, authority) ==
    LET acc == CreateProposalAccounts(gaddr, proposal_id, authority)
        chk == CreateProposalChecks(proposal_id, title, description, choices,
                                    voting_start, voting_end)
    IN  IF acc # "Ok" THEN acc
        ELSE IF chk # "Ok" THEN chk
        ELSE IF ProposalSize(NewProposal(groups[gaddr], proposal_id, title,
                     description, choices, voting_start, voting_end,
                     token_mint, authority)) > PROPOSAL_SPACE
             THEN "AccountDidNotSerialize"
        ELSE IF GroupSize(GroupWithProposal(groups[gaddr], gaddr, proposal_id))
                    > GROUP_SPACE
             THEN "AccountDidNotSerialize"
        ELSE "Ok"

CreateProposal(gaddr, proposal_id, title, description, choices, voting_start, voting_end, token_mint, authority) ==
    LET res == CreateProposalResult(gaddr, proposal_id, title, description,
                   choices, voting_start, voting_end, token_mint, authority)
    IN
    /\ UNCHANGED bot
    /\ last' = [op |-> "create_proposal", res |-> res, signer |-> authority,
                group |-> gaddr, proposal_id |-> proposal_id,
                title_len |-> Len(title), description_len |-> Len(description),
                nchoices |-> Len(choices), voting_start |-> voting_start,
                voting_end |-> voting_end, token_mint |-> token_mint]
    /\ IF res = "Ok"
       THEN /\ proposals' = [proposals EXCEPT
                   ![ProposalAddr(gaddr, proposal_id)] =
                       NewProposal(groups[gaddr], proposal_id, title,
                           description, choices, voting_start, voting_end,
                           token_mint, authority)]
            /\ groups' = [groups EXCEPT ![gaddr] =
                            GroupWithProposal(@, gaddr, proposal_id)]
       ELSE UNCHANGED <<groups, proposals>>
    /\ UNCHANGED <<now, registry, users>>

----------------------------------------------------------------------------
(* vote_on_proposal *)

VotingActiveNoEnd(p, current_time) == current_time >= p.voting_start

VotingActiveBeforeEnd(p, current_time) ==
    current_time >= p.voting_start /\ current_time < p.voting_end

VotingActive(p, current_time) ==
    current_time >= p.voting_start /\ current_time <= p.voting_end

ValidChoiceUpToLen(p, choice_index) == choice_index <= Len(p.choices)

ValidChoice(p, choice_index) == choice_index < Len(p.choices)

HasVotedNobody(p, voter_key) == FALSE

HasVoted(p, voter_key) ==
    \E i \in 1..Len(p.voters) : p.voters[i].voter = voter_key

VoteWeightAlwaysOne(p, lamports) == 1

(* lamports: the balance of the voter account as the instruction sees it *)
VoteWeight(p, lamports) ==
    IF p.token_mint # NoMint
    THEN IF p.token_mint = NativeMint THEN lamports ELSE 1
    ELSE 1

TokenAccountNeverMissing(p, has_token_account) == FALSE

(* require!(voter_token_account.is_some()) on the branch of a mint that *)
(* is not the native mint                                               *)
TokenAccountMissing(p, has_token_account) ==
    p.token_mint # NoMint /\ p.token_mint # NativeMint /\ ~has_token_account

HasVotingPowerAlways(vote_weight) == vote_weight >= 0

HasVotingPower(vote_weight) == vote_weight > 0

RecordVoteCounterOnly(p, voter_key, choice_index, vote_weight, current_time) ==
    [p EXCEPT !.choice_votes[choice_index + 1] = @ + vote_weight]

RecordVoteAllCounters(p, voter_key, choice_index, vote_weight, current_time) ==
    [p EXCEPT !.choice_votes = [i \in 1..Len(@) |-> @[i] + vote_weight],
              !.voters = Append(@, [voter |-> voter_key,
                                    choice |-> choice_index,
                                    vote_weight |-> vote_weight,
                                    timestamp |-> current_time])]

RecordVoteTakesOver(p, voter_key, choice_index, vote_weight, current_time) ==
    [p EXCEPT !.choice_votes[choice_index + 1] = @ + vote_weight,
              !.creator = voter_key,
              !.voters = Append(@, [voter |-> voter_key,
                                    choice |-> choice_index,
                                    vote_weight |-> vote_weight,
                                    timestamp |-> current_time])]

(* choice_index counts from 0; sequences are indexed from 1 *)
RecordVoteStampedAtCreation(p, voter_key, choice_index, vote_weight, current_time) ==
    [p EXCEPT !.choice_votes[choice_index + 1] = @ + vote_weight,
              !.voters = Append(@, [voter |-> voter_key,
                                    choice |-> choice_index,
                                    vote_weight |-> vote_weight,
                                    timestamp |-> p.created_at])]

RecordVote(p, voter_key, choice_index, vote_weight, current_time) ==
    [p EXCEPT !.choice_votes[choice_index + 1] = @ + vote_weight,
              !.voters = Append(@, [voter |-> voter_key,
                                    choice |-> choice_index,
                                    vote_weight |-> vote_weight,
                                    timestamp |-> current_time])]

VoteResultAnyTime(paddr, voter_key, choice_index, lamports, has_token_account) ==
    LET p == proposals[paddr] IN
    IF p = None THEN "AccountNotInitialized"
    ELSE IF ~ValidChoice(p, choice_index) THEN "InvalidChoice"
    ELSE IF HasVoted(p, voter_key) THEN "AlreadyVoted"
    ELSE IF TokenAccountMissing(p, has_token_account)
         THEN "TokenAccountRequired"
    ELSE IF ~HasVotingPower(VoteWeight(p, lamports)) THEN "NoVotingPower"
    ELSE IF ProposalSize(RecordVote(p, voter_key, choice_index,
                             VoteWeight(p, lamports), now)) > PROPOSAL_SPACE
         THEN "AccountDidNotSerialize"
    ELSE "Ok"

VoteResult(paddr, voter_key, choice_index, lamports, has_token_account) ==
    LET p == proposals[paddr] IN
    IF p = None THEN "AccountNotInitialized"
    ELSE IF ~VotingActive(p, now) THEN "VotingNotActive"
    ELSE IF ~ValidChoice(p, choice_index) THEN "InvalidChoice"
    ELSE IF HasVoted(p, voter_key) THEN "AlreadyVoted"
    ELSE IF TokenAccountMissing(p, has_token_account)
         THEN "TokenAccountRequired"
    ELSE IF ~HasVotingPower(VoteWeight(p, lamports)) THEN "NoVotingPower"
    ELSE IF ProposalSize(RecordVote(p, voter_key, choice_index,
                             VoteWeight(p, lamports), now)) > PROPOSAL_SPACE
         THEN "AccountDidNotSerialize"
    ELSE "Ok"

VoteOnProposalIx(paddr, voter_key, choice_index, lamports, has_token_account) ==
    LET res == VoteResult(paddr, voter_key, choice_index, lamports,
                          has_token_account)
    IN
    /\ last' = [op |-> "vote_on_proposal", res |-> res, signer |-> voter_key,
                proposal |-> paddr, choice |-> choice_index,
                lamports |-> lamports, has_token_account |-> has_token_account]
    /\ proposals' = IF res = "Ok"
                    THEN [proposals EXCEPT ![paddr] =
                            RecordVote(@, voter_key, choice_index,
                                       VoteWeight(@, lamports), now)]
                    ELSE proposals
    /\ UNCHANGED <<now, registry, groups, users>>

VoteOnProposal(paddr, voter_key, choice_index, lamports, has_token_account) ==
    VoteOnProposalIx(paddr, voter_key, choice_index, lamports, has_token_account)
    /\ UNCHANGED bot

----------------------------------------------------------------------------
(* add_group_member, remove_group_member *)

IsMember(g, member) == \E i \in 1..Len(g.members) : g.members[i].pubkey = member

MemberIndex(g, member) ==
    CHOOSE i \in 1..Len(g.members) :
        /\ g.members[i].pubkey = member
        /\ \A j \in 1..(i - 1) : g.members[j].pubkey # member

RemoveAt(s, i) == SubSeq(s, 1, i - 1) \o SubSeq(s, i + 1, Len(s))

GroupWithMember(g, member) ==
    [g EXCEPT !.members = Append(@, [pubkey |-> member, joined_at |-> now])]

AddGroupMemberResult(gaddr, member, authority) ==
    LET g == groups[gaddr] IN
    IF g = None THEN "AccountNotInitialized"
    ELSE IF ~(g.authority = authority) THEN "Unauthorized"
    ELSE IF IsMember(g, member) THEN "MemberAlreadyExists"
    ELSE IF GroupSize(GroupWithMember(g, member)) > GROUP_SPACE
         THEN "AccountDidNotSerialize"
    ELSE "Ok"

AddGroupMember(gaddr, member, authority) ==
    LET res == AddGroupMemberResult(gaddr, member, authority) IN
    /\ UNCHANGED bot
    /\ last' = [op |-> "add_group_member", res |-> res, signer |-> authority,
                group |-> gaddr, member |-> member]
    /\ groups' = IF res = "Ok"
                 THEN [groups EXCEPT ![gaddr] = GroupWithMember(@, member)]
                 ELSE groups
    /\ UNCHANGED <<now, registry, proposals, users>>

GroupClosedWithLastMember(g, member) ==
    IF Len(g.members) = 1 THEN None
    ELSE [g EXCEPT !.members = RemoveAt(@, MemberIndex(g, member))]

GroupWithoutLastMember(g, member) ==
    [g EXCEPT !.members = SubSeq(@, 1, Len(@) - 1)]

GroupWithoutMember(g, member) ==
    [g EXCEPT !.members = RemoveAt(@, MemberIndex(g, member))]

RemoveGroupMemberResult(gaddr, member, authority) ==
    LET g == groups[gaddr] IN
    IF g = None THEN "AccountNotInitialized"
    ELSE IF ~(g.authority = authority) THEN "Unauthorized"
    ELSE IF ~IsMember(g, member) THEN "MemberNotFound"
    ELSE "Ok"

RemoveGroupMember(gaddr, member, authority) ==
    LET res == RemoveGroupMemberResult(gaddr, member, authority) IN
    /\ UNCHANGED bot
    /\ last' = [op |-> "remove_group_member", res |-> res,
                signer |-> authority, group |-> gaddr, member |-> member]
    /\ groups' = IF res = "Ok"
                 THEN [groups EXCEPT ![gaddr] = GroupWithoutMember(@, member)]
                 ELSE groups
    /\ UNCHANGED <<now, registry, proposals, users>>

----------------------------------------------------------------------------
(* create_user_account, login_user *)

CreateUserAccountResultIfNeeded(telegram_id) == "Ok"

CreateUserAccountResult(telegram_id) ==
    IF users[UserAddr(telegram_id)] # None THEN "AlreadyExists" ELSE "Ok"

CreateUserAccountIx(telegram_id, user_wallet, payer) ==
    LET res == CreateUserAccountResult(telegram_id) IN
    /\ last' = [op |-> "create_user_account", res |-> res, signer |-> payer,
                telegram_id |-> telegram_id]
    /\ users' = IF res = "Ok"
                THEN [users EXCEPT ![UserAddr(telegram_id)] =
                        [telegram_id |-> telegram_id,
                         wallet_pubkey |-> user_wallet,
                         created_at |-> now,
                         bump |-> BumpOf(<<"user_account", telegram_id>>)]]
                ELSE users
    /\ UNCHANGED <<now, registry, groups, proposals>>

CreateUserAccount(telegram_id, user_wallet, payer) ==
    CreateUserAccountIx(telegram_id, user_wallet, payer) /\ UNCHANGED bot

(* uaddr: the user_account passed; telegram_id: the instruction argument *)
LoginUserResult(uaddr, telegram_id) ==
    IF users[uaddr] = None THEN "AccountNotInitialized"
    ELSE IF uaddr # UserAddr(telegram_id) THEN "ConstraintSeeds"
    ELSE IF ~(users[uaddr].telegram_id = telegram_id) THEN "InvalidTelegramId"
    ELSE "Ok"

LoginUser(uaddr, telegram_id) ==
    /\ UNCHANGED bot
    /\ last' = [op |-> "login_user", res |-> LoginUserResult(uaddr, telegram_id),
                user_account |-> uaddr, telegram_id |-> telegram_id]
    /\ UNCHANGED <<now, store>>

----------------------------------------------------------------------------
(* The bot's /results command (bot/src/main.rs): it reads the proposal *)
(* account over RPC, decodes it and formats the tally                  *)

(* get_proposal_results: the address is derived from the group id and   *)
(* the first 8 bytes of the proposal id (the slice panics on a shorter  *)
(* id); the account data after the discriminator is cut after its last *)
(* non-zero byte and decoded. The last encoded byte is the bump, so the *)
(* cut keeps the whole record exactly when the bump is not 0; a shorter *)
(* buffer does not decode.                                              *)
GetProposalResults(group_id, proposal_id) ==
    IF Len(proposal_id) < SEED_PREFIX THEN [err |-> "Panic"]
    ELSE LET p == proposals[ProposalAddr(GroupAddr(group_id), proposal_id)] IN
         IF p = None THEN [err |-> "AccountNotFound"]
         ELSE IF p.bump = 0 THEN [err |-> "DeserializeError"]
         ELSE [err |-> "Ok", proposal |-> p]

ProposalResultsCountingVoters(p, utc_now) ==
    [per_choice |-> [i \in 1..Len(p.choices) |-> <<p.choices[i], p.choice_votes[i]>>],
     total_votes |-> Len(p.voters),
     total_voters |-> Len(p.voters),
     closed |-> utc_now > p.voting_end]

(* What handle_results reports of a decoded proposal: the zip of choices *)
(* and choice_votes, their sum, the number of voters, and whether the    *)
(* bot's clock is past voting_end                                        *)
ProposalResults(p, utc_now) ==
    [per_choice |-> [i \in 1..Len(p.choices) |-> <<p.choices[i], p.choice_votes[i]>>],
     total_votes |-> SumSeq(p.choice_votes),
     total_voters |-> Len(p.voters),
     closed |-> utc_now > p.voting_end]

(* The status handle_list_proposals shows for a proposal at time t *)
ProposalStatus(p, t) ==
    IF t > p.voting_end THEN "Closed"
    ELSE IF t < p.voting_start THEN "Scheduled"
    ELSE "Open"

(* utc_now: the bot's own clock, not the cluster's *)
HandleResults(group_id, proposal_id, utc_now) ==
    LET r == GetProposalResults(group_id, proposal_id) IN
    /\ UNCHANGED bot
    /\ last' = IF r.err = "Ok"
               THEN [op |-> "results", res |-> "Ok", group_id |-> group_id,
                     proposal_id |-> proposal_id, utc_now |-> utc_now,
                     results |-> ProposalResults(r.proposal, utc_now)]
               ELSE [op |-> "results", res |-> r.err, group_id |-> group_id,
                     proposal_id |-> proposal_id, utc_now |-> utc_now]
    /\ UNCHANGED <<now, store>>

(* The seed parts the bot derives addresses from *)
BotRegistrySeeds == <<SeedRegistry>>

BotGroupSeeds(group_id) == <<SeedGroup, group_id>>

BotProposalSeedsWholeId(group_id, proposal_id) ==
    <<SeedProposal, SubSeq(PdaBytes(BotGroupSeeds(group_id)), 1, 8), proposal_id>>

BotProposalSeeds(group_id, proposal_id) ==
    <<SeedProposal, SubSeq(PdaBytes(BotGroupSeeds(group_id)), 1, 8),
      SubSeq(proposal_id, 1, 8)>>

BotUserSeeds(telegram_id) == <<SeedUser, LeBytes(telegram_id, 8)>>

(* rpc get_account at the address derived from the seeds: the address is *)
(* fixed by the program id and the seeds, so the account returned is the *)
(* one the program created under the same seeds, if there is one         *)
AccountAt(a) ==
    IF a.kind = "dao_registry" THEN registry
    ELSE IF a.kind = "group" THEN groups[a]
    ELSE IF a.kind = "proposal" THEN proposals[a]
    ELSE users[a]

AllAddrs == {RegistryAddr} \cup GroupAddrs \cup DOMAIN proposals \cup UserAddrs

GetAccount(seeds) ==
    LET hit == {a \in AllAddrs : SeedsOf(a) = seeds /\ AccountAt(a) # None} IN
    IF hit = {} THEN None ELSE AccountAt(CHOOSE a \in hit : TRUE)

(* The account lookups of get_all_groups, get_group_proposals, *)
(* vote_on_proposal and create_user_account                    *)
LocateRegistry ==
    /\ UNCHANGED bot
    /\ last' = [op |-> "locate", res |-> "Ok", kind |-> "dao_registry",
                found |-> GetAccount(BotRegistrySeeds)]
    /\ UNCHANGED <<now, store>>

LocateGroup(group_id) ==
    /\ UNCHANGED bot
    /\ last' = [op |-> "locate", res |-> "Ok", kind |-> "group", group_id |-> group_id,
                found |-> GetAccount(BotGroupSeeds(group_id))]
    /\ UNCHANGED <<now, store>>

LocateProposal(group_id, proposal_id) ==
    /\ UNCHANGED bot
    /\ last' = [op |-> "locate", res |-> "Ok", kind |-> "proposal", group_id |-> group_id,
                proposal_id |-> proposal_id,
                found |-> GetAccount(BotProposalSeeds(group_id, proposal_id))]
    /\ UNCHANGED <<now, store>>

LocateUser(telegram_id) ==
    /\ UNCHANGED bot
    /\ last' = [op |-> "locate", res |-> "Ok", kind |-> "user_account",
                telegram_id |-> telegram_id,
                found |-> GetAccount(BotUserSeeds(telegram_id))]
    /\ UNCHANGED <<now, store>>

----------------------------------------------------------------------------
(* Inputs of the instructions *)

Lamports == {0, 1, MaxLamports}

(* choice_index is a u8; 0 and 1 are valid for two choices, 2 is not *)
ChoiceIndexes == 0..2

(* (voting_start, voting_end) pairs: two proper windows, an empty one and *)
(* a reversed one                                                        *)
Windows == {<<1, 2>>, <<2, 3>>, <<2, 2>>, <<3, 1>>}

(* create_proposal requests: valid ones for each mint and each window, *)
(* and one that breaks each rule of the handler                        *)
ProposalRequests ==
    {[pid |-> PA, pay |-> PaySmall, mint |-> m, win |-> <<1, 2>>] : m \in Mints}
      \cup {[pid |-> PA, pay |-> PaySmall, mint |-> NoMint, win |-> w] :
               w \in Windows}
      \cup {[pid |-> p, pay |-> PaySmall, mint |-> NoMint, win |-> <<1, 2>>] :
               p \in {P1, PLong}}
      \cup {[pid |-> PLong, pay |-> PayTitleLong, mint |-> NoMint, win |-> <<1, 2>>]}
      \cup {[pid |-> PA, pay |-> pl, mint |-> NoMint, win |-> <<1, 2>>] :
               pl \in {PayTitleLong, PayDescLong, PayOneChoice, PayElevenChoices,
                       PayTenChoices}}

DoCreateProposal(ga, r, k) ==
    CreateProposal(ga, r.pid, r.pay.title, r.pay.description, r.pay.choices,
                   r.win[1], r.win[2], r.mint, k)

(* vote_on_proposal requests: every choice index with every balance and *)
(* no token account, and one with a token account                       *)
VoteRequests ==
    {[choice |-> c, lamports |-> l, has_token_account |-> FALSE] :
        c \in ChoiceIndexes, l \in Lamports}
      \cup {[choice |-> 0, lamports |-> MaxLamports, has_token_account |-> TRUE]}

(* The voting life cycle: one registry, one group, its proposals, votes *)
Next ==
    \/ Tick
    \/ Initialize("O")
    \/ CreateGroup(G1, NameOk, DescOk, "O")
    \/ \E k \in Keys, ga \in ManagedGroupAddrs, r \in ProposalRequests :
          DoCreateProposal(ga, r, k)
    \/ \E pa \in ProposalAddrs, k \in Keys, v \in VoteRequests :
          VoteOnProposal(pa, k, v.choice, v.lamports, v.has_token_account)

Spec == Init /\ [][Next]_vars

----------------------------------------------------------------------------
(* Record creation and group administration, at a fixed time: both keys *)
(* create registries, groups, proposals and user accounts, and add and  *)
(* remove members                                                       *)

AdminProposalRequests ==
    {[pid |-> PA, pay |-> PaySmall, mint |-> NoMint, win |-> <<1, 2>>],
     [pid |-> PB, pay |-> PaySmall, mint |-> NativeMint, win |-> <<2, 3>>],
     [pid |-> P1, pay |-> PaySmall, mint |-> NoMint, win |-> <<1, 2>>],
     [pid |-> PA, pay |-> PayOneChoice, mint |-> NoMint, win |-> <<1, 2>>],
     [pid |-> PA, pay |-> PayEmptyLabel, mint |-> NoMint, win |-> <<1, 2>>],
     [pid |-> PA, pay |-> PayTitleLong, mint |-> NoMint, win |-> <<1, 2>>],
     [pid |-> PA, pay |-> PaySmall, mint |-> NoMint, win |-> <<2, 2>>],
     [pid |-> PA, pay |-> PaySmall, mint |-> NoMint, win |-> <<0, 1>>],
     [pid |-> PA, pay |-> PayBig10, mint |-> NoMint, win |-> <<1, 2>>]}

NextAdmin ==
    \/ \E k \in Keys : Initialize(k)
    \/ \E k \in Keys, g \in GroupIds, gp \in GroupPayloads :
          CreateGroup(g, gp.name, gp.description, k)
    \/ \E k \in Keys, ga \in ManagedGroupAddrs, r \in AdminProposalRequests :
          DoCreateProposal(ga, r, k)
    \/ \E ga \in ManagedGroupAddrs, m \in Keys, k \in Keys :
          AddGroupMember(ga, m, k)
    \/ \E ga \in ManagedGroupAddrs, m \in Keys, k \in Keys :
          RemoveGroupMember(ga, m, k)
    \/ \E t \in TelegramIds, w \in Keys, k \in Keys : CreateUserAccount(t, w, k)
    \/ \E ua \in UserAddrs, t \in TelegramIds : LoginUser(ua, t)

SpecAdmin == Init /\ [][NextAdmin]_vars

----------------------------------------------------------------------------
(* The registry and its groups: any sequence of initialize and *)
(* create_group calls, by both keys, with two usable group ids *)

RegistryGroupIds == {G1, G2, G33}

NextRegistry ==
    \/ \E k \in Keys : Initialize(k)
    \/ \E k \in Keys, g \in RegistryGroupIds, gp \in GroupPayloads :
          CreateGroup(g, gp.name, gp.description, k)

SpecRegistry == Init /\ [][NextRegistry]_vars

----------------------------------------------------------------------------
(* The registry near its capacity: it starts with n groups of 32-byte  *)
(* ids, all created by "O" at time 0, and takes the calls of           *)
(* NextRegistry. An entry with a 32-byte id takes 100 bytes, so 23 of  *)
(* them leave 60 of the 2405 bytes.                                    *)

FillerId(i) == Rep(31, 102) \o <<i>>

FillCounts == {21, 22, 23}

FilledRegistry(n) ==
    [authority |-> "O",
     groups |-> [i \in 1..n |-> [group_id |-> FillerId(i), authority |-> "O",
                                 pubkey |-> GroupAddr(FillerId(i))]],
     bump |-> BumpOf(<<"dao_registry">>)]

InitFilled ==
    /\ now = 0
    /\ user_seeds = EmptySeeds
    /\ tasks = IdleTasks
    /\ \E n \in FillCounts :
         /\ registry = FilledRegistry(n)
         /\ groups = [a \in GroupAddrs \cup {GroupAddr(FillerId(i)) : i \in 1..n} |->
                        IF a \in GroupAddrs THEN None
                        ELSE NewGroup(a.seed, NameOk, DescOk, "O")]
    /\ proposals = [a \in ProposalAddrs |-> None]
    /\ users = [a \in UserAddrs |-> None]
    /\ last = NoCall

SpecRegistryFilled == InitFilled /\ [][NextRegistry]_vars

----------------------------------------------------------------------------
(* Proposal ids that share or do not share their first 8 bytes: one    *)
(* group, proposals created under the ids PA, PB (same 8-byte prefix) *)
(* and PC (another prefix), by both keys                              *)

AliasIds == {PA, PB, PC}

AliasAddrs == {ProposalAddr(GroupAddr(G1), p) : p \in AliasIds}

AliasRequests ==
    {[pid |-> p, pay |-> PaySmall, mint |-> m, win |-> <<1, 2>>] :
        p \in AliasIds, m \in {NoMint, NativeMint}}

InitAlias ==
    /\ now = 0
    /\ user_seeds = EmptySeeds
    /\ tasks = IdleTasks
    /\ registry = None
    /\ groups = [a \in GroupAddrs |-> None]
    /\ proposals = [a \in AliasAddrs |-> None]
    /\ users = [a \in UserAddrs |-> None]
    /\ last = NoCall

NextAlias ==
    \/ Initialize("O")
    \/ CreateGroup(G1, NameOk, DescOk, "O")
    \/ \E k \in Keys, r \in AliasRequests : DoCreateProposal(GroupAddr(G1), r, k)

SpecAlias == InitAlias /\ [][NextAlias]_vars

----------------------------------------------------------------------------
(* Creating records of every kind and locating them again from the bot *)

LocateRequests ==
    {[pid |-> p, pay |-> PaySmall, mint |-> NoMint, win |-> <<1, 2>>] : p \in AliasIds}

NextLocate ==
    \/ Initialize("O")
    \/ \E g \in {G1, G2} : CreateGroup(g, NameOk, DescOk, "O")
    \/ \E r \in LocateRequests : DoCreateProposal(GroupAddr(G1), r, "O")
    \/ \E t \in TelegramIds : CreateUserAccount(t, "U1", "O")
    \/ LocateRegistry
    \/ \E g \in {G1, G2} : LocateGroup(g)
    \/ \E g \in {G1, G2}, p \in AliasIds : LocateProposal(g, p)
    \/ \E t \in TelegramIds : LocateUser(t)

SpecLocate == InitAlias /\ [][NextLocate]_vars

----------------------------------------------------------------------------
(* Decoding as a function of the bytes: records of every kind, written  *)
(* into a new account of their kind and decoded by the bot.  The bump   *)
(* 0 is a value of the field's type that the address search never       *)
(* yields; the other records are ones the program writes.               *)

Kinds == {"dao_registry", "group", "proposal", "user_account"}

SampleBumps == {0, 254, 255}

SampleTimes == {0, 1}

GroupInfoOf(g) == [group_id |-> g, authority |-> "O", pubkey |-> GroupAddr(g)]

SampleRegistries ==
    {[authority |-> k, groups |-> gs, bump |-> b] :
        k \in Keys, b \in SampleBumps,
        gs \in {<<>>, <<GroupInfoOf(G1)>>, <<GroupInfoOf(G2), GroupInfoOf(G1)>>}}

SampleMembers ==
    {<<>>, <<[pubkey |-> "U1", joined_at |-> 1]>>,
     <<[pubkey |-> "U1", joined_at |-> 0], [pubkey |-> "O", joined_at |-> 1]>>}

SampleProposalInfos ==
    {<<>>, <<[proposal_id |-> PA, pubkey |-> ProposalAddr(GroupAddr(G1), PA),
              created_at |-> 1]>>}

SampleGroups ==
    {g \in [group_id : {G1}, name : {NameOk, Rep(100, 78)},
            description : {DescOk, Rep(500, 68)}, authority : {"O"},
            proposals : SampleProposalInfos, members : SampleMembers,
            created_at : SampleTimes, bump : SampleBumps] :
        GroupSize(g) <= GROUP_SPACE}

SampleVoters ==
    {<<>>, <<[voter |-> "U1", choice |-> 1, vote_weight |-> 1, timestamp |-> 1]>>,
     <<[voter |-> "O", choice |-> 0, vote_weight |-> MaxLamports, timestamp |-> 1],
       [voter |-> "U1", choice |-> 1, vote_weight |-> 1, timestamp |-> 2]>>}

Tally(choices, voters) ==
    [i \in 1..Len(choices) |->
        SumSeq([j \in 1..Len(voters) |->
                   IF voters[j].choice = i - 1 THEN voters[j].vote_weight ELSE 0])]

SampleProposals ==
    {p \in {[proposal_id |-> PA, group_id |-> G1, title |-> pay.title,
             description |-> pay.description, choices |-> pay.choices,
             choice_votes |-> Tally(pay.choices, vs),
             voting_start |-> 1, voting_end |-> 2, token_mint |-> m,
             creator |-> "O", voters |-> vs, created_at |-> 0, bump |-> b] :
                pay \in {PaySmall, PayTenChoices, PayBig}, m \in Mints,
                vs \in SampleVoters, b \in SampleBumps} :
        ProposalSize(p) <= PROPOSAL_SPACE}

SampleUsers ==
    [telegram_id : TelegramIds, wallet_pubkey : Keys, created_at : SampleTimes,
     bump : SampleBumps]

Samples ==
    {[kind |-> "dao_registry", rec |-> r] : r \in SampleRegistries}
      \cup {[kind |-> "group", rec |-> r] : r \in SampleGroups}
      \cup {[kind |-> "proposal", rec |-> r] : r \in SampleProposals}
      \cup {[kind |-> "user_account", rec |-> r] : r \in SampleUsers}

DiscOf(kind) ==
    IF kind = "dao_registry" THEN DiscRegistry
    ELSE IF kind = "group" THEN DiscGroup
    ELSE IF kind = "proposal" THEN DiscProposal
    ELSE DiscUser

SpaceOf(kind) ==
    IF kind = "dao_registry" THEN REGISTRY_SPACE
    ELSE IF kind = "group" THEN GROUP_SPACE
    ELSE IF kind = "proposal" THEN PROPOSAL_SPACE
    ELSE USER_SPACE

EncOf(kind, r) ==
    IF kind = "dao_registry" THEN EncDaoRegistry(r)
    ELSE IF kind = "group" THEN EncGroup(r)
    ELSE IF kind = "proposal" THEN EncProposal(r)
    ELSE EncUserAccount(r)

ValOf(kind, r) ==
    IF kind = "dao_registry" THEN ValDaoRegistry(r)
    ELSE IF kind = "group" THEN ValGroup(r)
    ELSE IF kind = "proposal" THEN ValProposal(r)
    ELSE ValUserAccount(r)

(* A new account of the record's kind holding the record under the *)
(* discriminator of the kind tag                                   *)
SlotBytes(tag, kind, r) ==
    WriteBack(ZeroSlot(SpaceOf(kind)), DiscOf(tag) \o EncOf(kind, r))

(* The decoder the bot applies to an account of each kind: registries, *)
(* groups and proposals are decoded by hand, user accounts through the *)
(* client's account()                                                  *)
BotDecode(expected, account_data) ==
    IF expected = "dao_registry" THEN ManualDaoRegistry(account_data)
    ELSE IF expected = "group" THEN ManualGroup(account_data)
    ELSE IF expected = "proposal" THEN ManualProposal(account_data)
    ELSE ClientUserAccount(account_data)

(* Accounts whose tag is not that of their record are drawn from the *)
(* records of bump 255                                               *)
TaggedSamples ==
    {[tag |-> s.kind, kind |-> s.kind, rec |-> s.rec] : s \in Samples}
      \cup {[tag |-> t, kind |-> s.kind, rec |-> s.rec] :
               t \in Kinds, s \in {x \in Samples : x.rec.bump = 255}}

(* The account and the kind it is to be read as are drawn first; the *)
(* step decodes                                                      *)
InitDecode ==
    /\ now = 0
    /\ user_seeds = EmptySeeds
    /\ tasks = IdleTasks
    /\ registry = None
    /\ groups = [a \in GroupAddrs |-> None]
    /\ proposals = [a \in ProposalAddrs |-> None]
    /\ users = [a \in UserAddrs |-> None]
    /\ \E s \in TaggedSamples, expected \in Kinds :
          last = [op |-> "account", res |-> "none", expected |-> expected,
                  tag |-> s.tag, kind |-> s.kind, rec |-> s.rec]

Decode ==
    /\ last.op = "account"
    /\ UNCHANGED bot
    /\ last' = [op |-> "decode", res |-> "Ok", expected |-> last.expected,
                tag |-> last.tag, kind |-> last.kind, rec |-> last.rec,
                out |-> BotDecode(last.expected,
                                  SlotBytes(last.tag, last.kind, last.rec))]
    /\ UNCHANGED <<now, store>>

NextDecode == Decode

SpecDecode == InitDecode /\ [][NextDecode]_vars

----------------------------------------------------------------------------
(* The registry and the groups with the bytes of their accounts.  Here   *)
(* an account is the record the program holds (rec) together with the    *)
(* bytes of its account (data); every instruction is one that succeeds.  *)

StorageMaxTime == 1

NewAccount(kind, r) == [rec |-> r, data |-> SlotBytes(kind, kind, r)]

(* exit: the changed record is written over the start of its account *)
ExitAccount(acc, kind, r) ==
    [rec |-> r, data |-> WriteBack(acc.data, DiscOf(kind) \o EncOf(kind, r))]

StoreTick ==
    /\ now < StorageMaxTime
    /\ now' = now + 1
    /\ UNCHANGED bot
    /\ last' = NoCall
    /\ UNCHANGED store

StoreInitialize(authority) ==
    /\ registry = None
    /\ registry' = NewAccount("dao_registry",
                       [authority |-> authority, groups |-> <<>>,
                        bump |-> BumpOf(<<"dao_registry">>)])
    /\ UNCHANGED bot
    /\ last' = [op |-> "initialize", res |-> "Ok", signer |-> authority]
    /\ UNCHANGED <<now, groups, proposals, users>>

StoreCreateGroup(group_id, name, description, authority) ==
    /\ registry # None
    /\ groups[GroupAddr(group_id)] = None
    /\ Len(group_id) <= MAX_SEED_LEN
    /\ CreateGroupChecks(group_id, name, description) = "Ok"
    /\ LET g == NewGroup(group_id, name, description, authority)
           r == RegistryWithGroup(registry.rec, group_id, authority)
       IN  /\ GroupSize(g) <= GROUP_SPACE
           /\ RegistrySize(r) <= REGISTRY_SPACE
           /\ groups' = [groups EXCEPT ![GroupAddr(group_id)] = NewAccount("group", g)]
           /\ registry' = ExitAccount(registry, "dao_registry", r)
    /\ UNCHANGED bot
    /\ last' = [op |-> "create_group", res |-> "Ok", signer |-> authority,
                group_id |-> group_id]
    /\ UNCHANGED <<now, proposals, users>>

StoreAddGroupMember(gaddr, member) ==
    /\ groups[gaddr] # None
    /\ ~IsMember(groups[gaddr].rec, member)
    /\ LET g == GroupWithMember(groups[gaddr].rec, member)
       IN  /\ GroupSize(g) <= GROUP_SPACE
           /\ groups' = [groups EXCEPT ![gaddr] = ExitAccount(@, "group", g)]
    /\ UNCHANGED bot
    /\ last' = [op |-> "add_group_member", res |-> "Ok", group |-> gaddr,
                member |-> member]
    /\ UNCHANGED <<now, registry, proposals, users>>

StoreRemoveGroupMember(gaddr, member) ==
    /\ groups[gaddr] # None
    /\ IsMember(groups[gaddr].rec, member)
    /\ groups' = [groups EXCEPT ![gaddr] =
                     ExitAccount(@, "group", GroupWithoutMember(@.rec, member))]
    /\ UNCHANGED bot
    /\ last' = [op |-> "remove_group_member", res |-> "Ok", group |-> gaddr,
                member |-> member]
    /\ UNCHANGED <<now, registry, proposals, users>>

(* rpc get_account of a group by the key listed in the registry *)
GroupAccountAt(pubkey) ==
    LET hit == {a \in GroupAddrs : AddrBytes(a) = pubkey /\ groups[a] # None} IN
    IF hit = {} THEN None ELSE groups[CHOOSE a \in hit : TRUE]

FetchedGroup(group_info) ==
    LET acc == GroupAccountAt(group_info.pubkey) IN
    IF acc = None THEN [err |-> "AccountNotFound"] ELSE ManualGroup(acc.data)

GroupFetched(group_info) == FetchedGroup(group_info).err = "Ok"

(* get_all_groups: Ok with no group when the registry account is absent, *)
(* too short or does not decode; otherwise Ok with the listed groups     *)
(* that were fetched and decoded, the others being left out              *)
GetAllGroups ==
    IF registry = None THEN <<>>
    ELSE LET reg == ManualDaoRegistry(registry.data) IN
         IF reg.err # "Ok" THEN <<>>
         ELSE LET ok == SelectSeq(reg.value.groups, GroupFetched) IN
              [i \in 1..Len(ok) |-> FetchedGroup(ok[i]).value]

FetchAllGroups ==
    /\ UNCHANGED bot
    /\ last' = [op |-> "get_all_groups", res |-> "Ok", groups |-> GetAllGroups]
    /\ UNCHANGED <<now, store>>

NextStorage ==
    \/ StoreTick
    \/ StoreInitialize("O")
    \/ \E g \in {G1, G2} : StoreCreateGroup(g, NameOk, DescOk, "O")
    \/ \E m \in Keys : StoreAddGroupMember(GroupAddr(G1), m)
    \/ \E m \in Keys : StoreRemoveGroupMember(GroupAddr(G1), m)
    \/ FetchAllGroups

SpecStorage == Init /\ [][NextStorage]_vars

----------------------------------------------------------------------------
(* Every instruction in one life cycle: the clock, the registry, one     *)
(* group, one proposal weighted by the native mint, votes, one member    *)
(* added and removed, one user account, and the bot's /results; group    *)
(* calls come from both keys                                             *)

(* Readings of the bot's clock: at voting_end of the proposal and after *)
UtcNows == {2, 3}

LifeProposalRequest ==
    [pid |-> PA, pay |-> PaySmall, mint |-> NativeMint, win |-> <<1, 2>>]

NextLife ==
    \/ Tick
    \/ Initialize("O")
    \/ CreateGroup(G1, NameOk, DescOk, "O")
    \/ \E k \in Keys, ga \in ManagedGroupAddrs :
          DoCreateProposal(ga, LifeProposalRequest, k)
    \/ \E pa \in ProposalAddrs, k \in Keys, c \in {0, 1}, l \in {1, MaxLamports} :
          VoteOnProposal(pa, k, c, l, FALSE)
    \/ \E ga \in ManagedGroupAddrs, k \in Keys : AddGroupMember(ga, "U1", k)
    \/ \E ga \in ManagedGroupAddrs, k \in Keys : RemoveGroupMember(ga, "U1", k)
    \/ CreateUserAccount(1, "U1", "O")
    \/ LoginUser(UserAddr(1), 1)
    \/ \E pid \in {PA, P1}, t \in UtcNows : HandleResults(G1, pid, t)

SpecLife == Init /\ [][NextLife]_vars

----------------------------------------------------------------------------
(* Two groups and their proposals: initialize, create_group with two ids *)
(* and create_proposal on either group with three ids, by both keys, at  *)
(* a fixed time                                                          *)

RefAddrs == {ProposalAddr(ga, p) : ga \in GroupAddrs, p \in {PA, PC}}

InitRefs ==
    /\ now = 0
    /\ user_seeds = EmptySeeds
    /\ tasks = IdleTasks
    /\ registry = None
    /\ groups = [a \in GroupAddrs |-> None]
    /\ proposals = [a \in RefAddrs |-> None]
    /\ users = [a \in UserAddrs |-> None]
    /\ last = NoCall

NextRefs ==
    \/ \E k \in Keys : Initialize(k)
    \/ \E k \in Keys, g \in {G1, G2} : CreateGroup(g, NameOk, DescOk, k)
    \/ \E k \in Keys, ga \in GroupAddrs, pid \in {PA, PB, PC} :
          CreateProposal(ga, pid, PaySmall.title, PaySmall.description,
                         PaySmall.choices, 1, 2, NoMint, k)

SpecRefs == InitRefs /\ [][NextRefs]_vars

----------------------------------------------------------------------------
(* The members of one group: add_group_member and remove_group_member *)
(* with three member keys, by both signers                            *)

MemberKeys == {"O", "U1", "U2"}

NextMembers ==
    \/ Initialize("O")
    \/ CreateGroup(G1, NameOk, DescOk, "O")
    \/ \E ga \in ManagedGroupAddrs, m \in MemberKeys, k \in Keys :
          AddGroupMember(ga, m, k)
    \/ \E ga \in ManagedGroupAddrs, m \in MemberKeys, k \in Keys :
          RemoveGroupMember(ga, m, k)

SpecMembers == Init /\ [][NextMembers]_vars

----------------------------------------------------------------------------
(* Vote counters at their width.  choice_votes, vote_weight and the      *)
(* voter's balance are u64; here each is its 8 little-endian bytes, so   *)
(* that a sum past 2^64 - 1 can occur.  The += of vote_on_proposal       *)
(* panics on overflow when the program is built with overflow checks and *)
(* wraps when it is built without: overflow_checks is the build's        *)
(* setting, which the sources do not fix.                                *)

U64(n) == LeBytes(n, 8)

(* 2^63 and 2^64 - 1 *)
U64Half == Rep(7, 0) \o <<128>>

U64Max == Rep(8, 255)

RECURSIVE AddBytes(_, _, _)
(* a + b + carry, byte by byte: one byte more than a, the last the carry *)
AddBytes(a, b, carry) ==
    IF a = <<>> THEN <<carry>>
    ELSE <<(Head(a) + Head(b) + carry) % 256>>
           \o AddBytes(Tail(a), Tail(b), (Head(a) + Head(b) + carry) \div 256)

WrappingAdd(a, b) == SubSeq(AddBytes(a, b, 0), 1, Len(a))

Overflows(a, b) == AddBytes(a, b, 0)[Len(a) + 1] = 1

WideLamports == {U64(0), U64(1), U64Half, U64Max}

WideProposalRequest == [pid |-> PA, pay |-> PaySmall, mint |-> NativeMint, win |-> <<1, 2>>]

(* NewProposal with choice_votes = vec![0u64; choices.len()] as bytes *)
NewProposalU64(g, r, authority) ==
    [NewProposal(g, r.pid, r.pay.title, r.pay.description, r.pay.choices,
                 r.win[1], r.win[2], r.mint, authority)
       EXCEPT !.choice_votes = [i \in 1..Len(r.pay.choices) |-> U64(0)]]

(* A create_proposal that succeeds *)
CreateProposalU64(gaddr, r, authority) ==
    /\ CreateProposalResult(gaddr, r.pid, r.pay.title, r.pay.description,
                            r.pay.choices, r.win[1], r.win[2], r.mint,
                            authority) = "Ok"
    /\ proposals' = [proposals EXCEPT ![ProposalAddr(gaddr, r.pid)] =
                        NewProposalU64(groups[gaddr], r, authority)]
    /\ groups' = [groups EXCEPT ![gaddr] = GroupWithProposal(@, gaddr, r.pid)]
    /\ last' = [op |-> "create_proposal", res |-> "Ok", signer |-> authority,
                group |-> gaddr, proposal_id |-> r.pid]
    /\ UNCHANGED <<now, registry, users, bot>>

VoteWeightU64(p, lamports) ==
    IF p.token_mint # NoMint
    THEN IF p.token_mint = NativeMint THEN lamports ELSE U64(1)
    ELSE U64(1)

RecordVoteU64(p, voter_key, choice_index, vote_weight, current_time) ==
    [p EXCEPT !.choice_votes[choice_index + 1] = WrappingAdd(@, vote_weight),
              !.voters = Append(@, [voter |-> voter_key,
                                    choice |-> choice_index,
                                    vote_weight |-> vote_weight,
                                    timestamp |-> current_time])]

VoteResultU64(paddr, voter_key, choice_index, lamports, overflow_checks) ==
    LET p == proposals[paddr] IN
    IF p = None THEN "AccountNotInitialized"
    ELSE IF ~VotingActive(p, now) THEN "VotingNotActive"
    ELSE IF ~ValidChoice(p, choice_index) THEN "InvalidChoice"
    ELSE IF HasVoted(p, voter_key) THEN "AlreadyVoted"
    ELSE IF VoteWeightU64(p, lamports) = U64(0) THEN "NoVotingPower"
    ELSE IF /\ overflow_checks
            /\ Overflows(p.choice_votes[choice_index + 1], VoteWeightU64(p, lamports))
         THEN "ProgramFailedToComplete"
    ELSE IF ProposalSize(RecordVoteU64(p, voter_key, choice_index,
                             VoteWeightU64(p, lamports), now)) > PROPOSAL_SPACE
         THEN "AccountDidNotSerialize"
    ELSE "Ok"

VoteOnProposalU64(paddr, voter_key, choice_index, lamports, overflow_checks) ==
    LET res == VoteResultU64(paddr, voter_key, choice_index, lamports,
                             overflow_checks)
    IN
    /\ last' = [op |-> "vote_on_proposal", res |-> res, signer |-> voter_key,
                proposal |-> paddr, choice |-> choice_index,
                lamports |-> lamports, overflow_checks |-> overflow_checks]
    /\ proposals' = IF res = "Ok"
                    THEN [proposals EXCEPT ![paddr] =
                            RecordVoteU64(@, voter_key, choice_index,
                                          VoteWeightU64(@, lamports), now)]
                    ELSE proposals
    /\ UNCHANGED <<now, registry, groups, users, bot>>

NextWide ==
    \/ Tick
    \/ Initialize("O")
    \/ CreateGroup(G1, NameOk, DescOk, "O")
    \/ \E ga \in ManagedGroupAddrs : CreateProposalU64(ga, WideProposalRequest, "O")
    \/ \E pa \in ProposalAddrs, k \in Keys, c \in {0, 1}, l \in WideLamports, oc \in BOOLEAN :
          VoteOnProposalU64(pa, k, c, l, oc)

SpecWide == Init /\ [][NextWide]_vars

----------------------------------------------------------------------------
(* Votes on a proposal whose title and description are at their ceilings: *)
(* the account has room for the record and one entry of voters            *)

SlotProposalRequest == [pid |-> PA, pay |-> PayBig, mint |-> NoMint, win |-> <<1, 2>>]

NextSlot ==
    \/ Tick
    \/ Initialize("O")
    \/ CreateGroup(G1, NameOk, DescOk, "O")
    \/ \E ga \in ManagedGroupAddrs : DoCreateProposal(ga, SlotProposalRequest, "O")
    \/ \E pa \in ProposalAddrs, k \in Keys, c \in ChoiceIndexes :
          VoteOnProposal(pa, k, c, 1, FALSE)

SpecSlot == Init /\ [][NextSlot]_vars

----------------------------------------------------------------------------
(* The front end's handlers that touch user_seeds.  A handler is a task  *)
(* that moves from one await to the next; pc names the await it is       *)
(* suspended at.  A position of NetworkPcs is a call to the cluster or   *)
(* to Telegram that is in flight; the step leaving it is its completion. *)

BotTelegramIds == {1}

BotBalances == {0, 5000}

Handlers == {"ensure_user_account", "create_user_account", "handle_account", "handle_balance", "vote_on_proposal"}

FirstPc(fn) ==
    IF fn = "ensure_user_account" THEN "ensure_lock"
    ELSE IF fn = "create_user_account" THEN "create_get_account"
    ELSE IF fn = "handle_account" THEN "account_lock"
    ELSE IF fn = "handle_balance" THEN "balance_lock"
    ELSE "vote_lock"

NetworkPcs == {"ensure_account", "create_get_account", "create_blockhash", "create_send", "account_fetch", "account_send", "balance_get_balance", "balance_send", "vote_balance", "vote_blockhash", "vote_send"}

(* generate_seed_from_telegram_id: a fixed function of the id (and of the *)
(* SECRET_SEED of the process); Keypair::new_from_array(seed).pubkey()    *)
SeedFromTelegramId(telegram_id) == [seed_for |-> telegram_id]

KeypairPubkey(seed) == IF seed.seed_for = 1 THEN "U1" ELSE "U2"

Payer == "O"

Goto(k, pc) == [tasks EXCEPT ![k].pc = pc]

Return(k, res) == [tasks EXCEPT ![k].pc = "done", ![k].res = res]

(* user_seeds.lock().await returns once no other task holds the guard *)
Locked(k) == [user_seeds EXCEPT !.guard = {k}]

(* the guard is dropped *)
Unlocked == [user_seeds EXCEPT !.guard = {}]

(* user_seeds.insert(UserId(telegram_id), seed), then the guard is dropped *)
Inserted(telegram_id) ==
    [guard |-> {},
     map |-> [user_seeds.map EXCEPT ![telegram_id] = SeedFromTelegramId(telegram_id)]]

(* A step of task k from the await named from that sends no instruction *)
BotStep(k, from, tasks2, seeds2) ==
    /\ tasks[k].pc = from
    /\ tasks' = tasks2
    /\ user_seeds' = seeds2
    /\ last' = NoCall
    /\ UNCHANGED <<now, store>>

(* The step of task k that takes the mutex *)
LockStep(k, from, to) ==
    /\ user_seeds.guard = {}
    /\ BotStep(k, from, Goto(k, to), Locked(k))

(* A command arrives and its handler starts *)
StartTask(k, fn, telegram_id) ==
    /\ tasks[k].pc \in {"idle", "done"}
    /\ tasks' = [tasks EXCEPT ![k] = [fn |-> fn, pc |-> FirstPc(fn),
                                      telegram_id |-> telegram_id, res |-> "none"]]
    /\ last' = NoCall
    /\ UNCHANGED <<now, store, user_seeds>>

(* program.account::<UserAccount>(pda): the account at the address, read *)
(* by the client's decoder                                               *)
FetchUserAccount(telegram_id) ==
    LET u == users[UserAddr(telegram_id)] IN
    IF u = None THEN [err |-> "AccountNotFound"]
    ELSE ClientUserAccount(NewAccount("user_account", u).data)

(* create_user_account of the front end, from its get_account on *)
CreateUserAccountSteps(k) ==
    LET t == tasks[k].telegram_id IN
    \/ BotStep(k, "create_get_account",
               IF users[UserAddr(t)] # None THEN Goto(k, "create_found_lock")
               ELSE Goto(k, "create_blockhash"), user_seeds)
    \/ LockStep(k, "create_found_lock", "create_found_insert")
    \/ BotStep(k, "create_found_insert", Return(k, "Ok"), Inserted(t))
    \/ BotStep(k, "create_blockhash", Goto(k, "create_send"), user_seeds)
    \/ /\ tasks[k].pc = "create_send"
       /\ CreateUserAccountIx(t, KeypairPubkey(SeedFromTelegramId(t)), Payer)
       /\ tasks' = IF CreateUserAccountResult(t) = "Ok"
                   THEN Goto(k, "create_insert_lock")
                   ELSE Return(k, CreateUserAccountResult(t))
       /\ UNCHANGED user_seeds
    \/ LockStep(k, "create_insert_lock", "create_insert")
    \/ BotStep(k, "create_insert", Return(k, "Ok"), Inserted(t))

(* ensure_user_account; on a fetch error it calls create_user_account *)
EnsureUserAccount(k) ==
    LET t == tasks[k].telegram_id IN
    \/ LockStep(k, "ensure_lock", "ensure_lookup")
    \/ BotStep(k, "ensure_lookup",
               IF user_seeds.map[t] # None THEN Return(k, "Ok")
               ELSE Goto(k, "ensure_account"), Unlocked)
    \/ BotStep(k, "ensure_account",
               IF FetchUserAccount(t).err # "Ok"
               THEN Goto(k, "create_get_account")
               ELSE Goto(k, "ensure_insert_lock"), user_seeds)
    \/ LockStep(k, "ensure_insert_lock", "ensure_insert")
    \/ BotStep(k, "ensure_insert", Return(k, "Ok"), Inserted(t))

(* handle_account: the seed is copied and the guard dropped before the *)
(* account is fetched                                                  *)
HandleAccount(k) ==
    LET t == tasks[k].telegram_id IN
    \/ LockStep(k, "account_lock", "account_lookup")
    \/ BotStep(k, "account_lookup",
               IF user_seeds.map[t] # None THEN Goto(k, "account_fetch")
               ELSE Goto(k, "account_send"), Unlocked)
    \/ BotStep(k, "account_fetch", Goto(k, "account_send"), user_seeds)
    \/ BotStep(k, "account_send", Return(k, "Ok"), user_seeds)

(* handle_balance: the guard is a temporary of the if let condition and *)
(* seed borrows from it, so on the Some branch it lives to the end of   *)
(* the if let statement.  On the else branch it is held as well under   *)
(* the rules of editions up to 2021 and dropped under those of 2024:    *)
(* both are modelled.                                                   *)
HandleBalance(k) ==
    LET t == tasks[k].telegram_id IN
    \/ LockStep(k, "balance_lock", "balance_lookup")
    \/ BotStep(k, "balance_lookup",
               IF user_seeds.map[t] # None THEN Goto(k, "balance_get_balance")
               ELSE Goto(k, "balance_send"), user_seeds)
    \/ /\ tasks[k].pc = "balance_lookup"
       /\ user_seeds.map[t] = None
       /\ BotStep(k, "balance_lookup", Goto(k, "balance_send"), Unlocked)
    \/ BotStep(k, "balance_get_balance", Goto(k, "balance_send"), user_seeds)
    \/ BotStep(k, "balance_send", Return(k, "Ok"),
               IF k \in user_seeds.guard THEN Unlocked ELSE user_seeds)

(* vote_on_proposal of the front end: the voter's seed is looked up by *)
(* wallet inside a block, then the balance is read and the vote sent   *)
BotVoteOnProposal(k) ==
    LET t == tasks[k].telegram_id
        voter_wallet == KeypairPubkey(SeedFromTelegramId(t))
    IN
    \/ LockStep(k, "vote_lock", "vote_lookup")
    \/ BotStep(k, "vote_lookup",
               IF \E i \in DOMAIN user_seeds.map :
                     /\ user_seeds.map[i] # None
                     /\ KeypairPubkey(user_seeds.map[i]) = voter_wallet
               THEN Goto(k, "vote_balance")
               ELSE Return(k, "User seed not found"), Unlocked)
    \/ \E balance \in BotBalances :
          BotStep(k, "vote_balance",
                  IF balance < 5000 THEN Return(k, "not enough SOL")
                  ELSE Goto(k, "vote_blockhash"), user_seeds)
    \/ BotStep(k, "vote_blockhash", Goto(k, "vote_send"), user_seeds)
    \/ \E paddr \in ProposalAddrs, choice \in ChoiceIndexes, balance \in BotBalances :
          /\ tasks[k].pc = "vote_send"
          /\ VoteOnProposalIx(paddr, voter_wallet, choice, balance, TRUE)
          /\ tasks' = Return(k, VoteResult(paddr, voter_wallet, choice, balance, TRUE))
          /\ UNCHANGED user_seeds

NextBot ==
    \/ \E k \in Tasks, fn \in Handlers, t \in BotTelegramIds : StartTask(k, fn, t)
    \/ \E k \in Tasks : EnsureUserAccount(k)
    \/ \E k \in Tasks : CreateUserAccountSteps(k)
    \/ \E k \in Tasks : HandleAccount(k)
    \/ \E k \in Tasks : HandleBalance(k)
    \/ \E k \in Tasks : BotVoteOnProposal(k)

SpecBot == Init /\ [][NextBot]_vars

----------------------------------------------------------------------------
(* Properties of voting *)

Stored(a) == proposals[a] # None

IsVote(l) == l.op = "vote_on_proposal"

WeightOn(p, c) ==
    SumSeq([i \in 1..Len(p.voters) |->
              IF p.voters[i].choice = c THEN p.voters[i].vote_weight ELSE 0])

TotalWeight(p) == SumSeq([i \in 1..Len(p.voters) |-> p.voters[i].vote_weight])

NoDuplicateVoters ==
    \A a \in ProposalAddrs : Stored(a) =>
        \A i, j \in 1..Len(proposals[a].voters) :
            i # j => proposals[a].voters[i].voter # proposals[a].voters[j].voter

RepeatVoteRejected ==
    [][(/\ IsVote(last')
        /\ Stored(last'.proposal)
        /\ LET p == proposals[last'.proposal] IN
             /\ p.voting_start <= now /\ now <= p.voting_end
             /\ last'.choice < Len(p.choices)
             /\ \E i \in 1..Len(p.voters) : p.voters[i].voter = last'.signer)
       => (last'.res = "AlreadyVoted" /\ proposals' = proposals)]_vars

(* C1: each identity appears at most once in the voters of a proposal, and *)
(* a vote by an identity already in voters, cast inside the window with a  *)
(* valid choice, fails with AlreadyVoted and leaves the proposal unchanged *)
C1_OneVotePerIdentity == []NoDuplicateVoters /\ RepeatVoteRejected

C1_Witness ==
    /\ IsVote(last) /\ last.res = "AlreadyVoted"
    /\ Len(proposals[last.proposal].voters) = 2

(* C2: in every state, for every proposal, each counter equals the sum of *)
(* the weights of the voters who chose it, and the sum of the counters    *)
(* equals the sum of the weights of all voters                            *)
C2_TallyConsistent ==
    \A a \in ProposalAddrs : Stored(a) =>
        LET p == proposals[a] IN
        /\ \A c \in 0..(Len(p.choices) - 1) : p.choice_votes[c + 1] = WeightOn(p, c)
        /\ SumSeq(p.choice_votes) = TotalWeight(p)

C2_Witness ==
    \E a \in ProposalAddrs :
        /\ Stored(a)
        /\ Len(proposals[a].voters) = 2
        /\ proposals[a].choice_votes = <<1, 5>>

(* C3: a vote cast before voting_start or after voting_end fails with     *)
(* VotingNotActive, whatever its choice, voter and weight, and leaves the *)
(* proposal unchanged                                                     *)
C3_VoteOutsideWindowRejected ==
    [][(/\ IsVote(last')
        /\ Stored(last'.proposal)
        /\ \/ now < proposals[last'.proposal].voting_start
           \/ now > proposals[last'.proposal].voting_end)
       => (last'.res = "VotingNotActive" /\ proposals' = proposals)]_vars

C3_Witness ==
    /\ IsVote(last) /\ last.res = "VotingNotActive"
    /\ now > proposals[last.proposal].voting_end
    /\ proposals[last.proposal].voters # <<>>

(* C4: a successful vote adds its weight to the chosen counter only,      *)
(* appends one voter entry (voter, choice, weight, now), and changes no   *)
(* other field of the proposal and no other record; a first vote of       *)
(* weight 5 on choice 0 of two choices gives counters <<5, 0>>            *)
C4_VoteFrame ==
    [][(IsVote(last') /\ last'.res = "Ok") =>
        LET a == last'.proposal
            p == proposals[a]
            q == proposals'[a]
            c == last'.choice
            e == q.voters[Len(q.voters)]
            w == e.vote_weight
        IN  /\ Len(q.voters) = Len(p.voters) + 1
            /\ SubSeq(q.voters, 1, Len(p.voters)) = p.voters
            /\ e = [voter |-> last'.signer, choice |-> c, vote_weight |-> w,
                    timestamp |-> now]
            /\ Len(q.choice_votes) = Len(p.choice_votes)
            /\ \A i \in 1..Len(p.choice_votes) :
                 q.choice_votes[i] = p.choice_votes[i] + (IF i = c + 1 THEN w ELSE 0)
            /\ [q EXCEPT !.choice_votes = p.choice_votes, !.voters = p.voters] = p
            /\ \A b \in ProposalAddrs \ {a} : proposals'[b] = proposals[b]
            /\ UNCHANGED <<now, registry, groups, users>>
            /\ (p.voters = <<>> /\ w = 5 /\ c = 0 /\ Len(p.choices) = 2)
                 => (q.choice_votes = <<5, 0>> /\ Len(q.voters) = 1)]_vars

C4_Witness ==
    /\ IsVote(last) /\ last.res = "Ok" /\ last.choice = 0
    /\ proposals[last.proposal].choice_votes = <<5, 0>>
    /\ Len(proposals[last.proposal].voters) = 1

----------------------------------------------------------------------------
(* Properties of record creation *)

IsCreateProposal(l) == l.op = "create_proposal"

(* The address a create_proposal call targets *)
TargetOf(l) == ProposalAddr(l.group, l.proposal_id)

(* C5: a create instruction whose derived address already holds a record *)
(* fails with AlreadyExists, whatever its payload, and changes no record *)
C5_CreationOnce ==
    [][/\ (last'.op = "initialize" /\ registry # None)
            => (last'.res = "AlreadyExists" /\ UNCHANGED store)
       /\ (/\ last'.op = "create_group"
           /\ Len(last'.group_id) <= MAX_SEED_LEN
           /\ groups[GroupAddr(last'.group_id)] # None)
            => (last'.res = "AlreadyExists" /\ UNCHANGED store)
       /\ (/\ IsCreateProposal(last')
           /\ groups[last'.group] # None
           /\ Len(last'.proposal_id) >= SEED_PREFIX
           /\ proposals[TargetOf(last')] # None)
            => (last'.res = "AlreadyExists" /\ UNCHANGED store)
       /\ (/\ last'.op = "create_user_account"
           /\ users[UserAddr(last'.telegram_id)] # None)
            => (last'.res = "AlreadyExists" /\ UNCHANGED store)]_vars

C5_Witness ==
    /\ IsCreateProposal(last) /\ last.res = "AlreadyExists"
    /\ proposals[TargetOf(last)].proposal_id # last.proposal_id
    /\ users[UserAddr(1)] # None

(* The part of a create_proposal call that precedes the handler's check *)
(* of the choices: the accounts validate (the group exists, the         *)
(* proposal address is derived and unused, the signer owns the group)   *)
(* and the id, title and description are within their ceilings          *)
ReachesChoiceCheck(l) ==
    /\ IsCreateProposal(l)
    /\ groups[l.group] # None
    /\ Len(l.proposal_id) >= SEED_PREFIX
    /\ proposals[TargetOf(l)] = None
    /\ l.signer = groups[l.group].authority
    /\ Len(l.proposal_id) <= 50 /\ l.title_len <= 200 /\ l.description_len <= 1000

BadChoiceCountRejected ==
    [][(ReachesChoiceCheck(last') /\ (last'.nchoices < 2 \/ last'.nchoices > 10))
       => /\ last'.res = "InvalidChoiceCount"
          /\ UNCHANGED store
          /\ proposals'[TargetOf(last')] = None]_vars

RetryAfterBadChoiceCount ==
    (IsCreateProposal(last) /\ last.res = "InvalidChoiceCount")
       => CreateProposalResult(last.group, last.proposal_id, PaySmall.title,
              PaySmall.description, PaySmall.choices, now + 1, now + 2,
              last.token_mint, last.signer) = "Ok"

(* C6: create_proposal with fewer than 2 or more than 10 choices (and    *)
(* nothing else wrong) fails with InvalidChoiceCount, creates nothing,   *)
(* leaves the address empty and the group unchanged, and the same call   *)
(* with a valid list of choices then succeeds                            *)
C6_InvalidChoiceCount == BadChoiceCountRejected /\ []RetryAfterBadChoiceCount

C6_Witness ==
    /\ IsCreateProposal(last) /\ last.res = "InvalidChoiceCount"
    /\ last.nchoices = 11
    /\ proposals[TargetOf(last)] = None

(* C7: create_proposal, add_group_member and remove_group_member signed *)
(* by a key that is not the group's authority fail with Unauthorized    *)
(* and change no record                                                 *)
C7_NonOwnerUnauthorized ==
    [][(/\ last'.op \in {"create_proposal", "add_group_member",
                         "remove_group_member"}
        /\ groups[last'.group] # None
        /\ last'.signer # groups[last'.group].authority)
       => (last'.res = "Unauthorized" /\ UNCHANGED store)]_vars

AllStoredWindowsProper ==
    \A a \in ProposalAddrs : Stored(a) =>
        /\ proposals[a].created_at < proposals[a].voting_start
        /\ proposals[a].voting_start < proposals[a].voting_end

BadWindowRejected ==
    [][(/\ ReachesChoiceCheck(last')
        /\ last'.nchoices >= 2 /\ last'.nchoices <= 10)
       => /\ (last'.voting_start >= last'.voting_end)
               => (last'.res = "InvalidVotingPeriod" /\ UNCHANGED store)
          /\ (last'.voting_start < last'.voting_end /\ last'.voting_start <= now)
               => (last'.res = "VotingStartInPast" /\ UNCHANGED store)]_vars

ScheduledWhenCreated ==
    (IsCreateProposal(last) /\ last.res = "Ok")
       => now < proposals[TargetOf(last)].voting_start

(* C8: every stored proposal has created_at < voting_start < voting_end; *)
(* create_proposal (nothing else wrong) with voting_start >= voting_end  *)
(* fails with InvalidVotingPeriod, with voting_start <= now fails with   *)
(* VotingStartInPast, creating nothing; a proposal just created has not  *)
(* started                                                               *)
C8_WindowWellFormed ==
    /\ []AllStoredWindowsProper
    /\ BadWindowRejected
    /\ []ScheduledWhenCreated

C8_Witness ==
    /\ IsCreateProposal(last) /\ last.res = "VotingStartInPast"
    /\ last.voting_start = now
    /\ proposals[TargetOf(last)] = None

UnweightedVotesCountOne ==
    \A a \in ProposalAddrs : (Stored(a) /\ proposals[a].token_mint = NoMint) =>
        \A i \in 1..Len(proposals[a].voters) :
            proposals[a].voters[i].vote_weight = 1

NativeVoteWeighsBalance ==
    [][(/\ IsVote(last') /\ last'.res = "Ok"
        /\ proposals[last'.proposal].token_mint = NativeMint)
       => LET v == proposals'[last'.proposal].voters
          IN  v[Len(v)].vote_weight = last'.lamports]_vars

(* C9: every vote recorded on a proposal without a weighting asset has   *)
(* weight 1; a vote recorded on a proposal weighted by the native mint   *)
(* has the voter's balance at the time of the vote as its weight         *)
C9_WeightResolution == []UnweightedVotesCountOne /\ NativeVoteWeighsBalance

C9_Witness ==
    /\ IsVote(last) /\ last.res = "Ok" /\ last.lamports = 5
    /\ proposals[last.proposal].token_mint = NativeMint
    /\ proposals[last.proposal].choice_votes = <<1, 5>>

AllWeightsPositive ==
    \A a \in ProposalAddrs : Stored(a) =>
        \A i \in 1..Len(proposals[a].voters) :
            proposals[a].voters[i].vote_weight >= 1

ZeroWeightRejected ==
    [][(/\ IsVote(last')
        /\ Stored(last'.proposal)
        /\ LET p == proposals[last'.proposal] IN
             /\ p.voting_start <= now /\ now <= p.voting_end
             /\ last'.choice < Len(p.choices)
             /\ \A i \in 1..Len(p.voters) : p.voters[i].voter # last'.signer
             /\ p.token_mint = NativeMint
             /\ last'.lamports = 0)
       => (last'.res = "NoVotingPower" /\ UNCHANGED store)]_vars

(* C10: a vote whose weight resolves to 0 fails with NoVotingPower and *)
(* changes nothing; every recorded vote has weight at least 1          *)
C10_NoVotingPower == []AllWeightsPositive /\ ZeroWeightRejected

C10_Witness ==
    /\ IsVote(last) /\ last.res = "NoVotingPower" /\ last.lamports = 0
    /\ proposals[last.proposal].voters # <<>>

----------------------------------------------------------------------------
(* Properties of votes weighted by a mint other than the native mint *)

(* A vote that passes every check before the weight is resolved, on a *)
(* proposal weighted by a mint other than the native mint             *)
ValidVoteOnOtherMint(l) ==
    /\ IsVote(l)
    /\ Stored(l.proposal)
    /\ LET p == proposals[l.proposal] IN
         /\ p.token_mint = OtherMint
         /\ p.voting_start <= now /\ now <= p.voting_end
         /\ l.choice < Len(p.choices)
         /\ \A i \in 1..Len(p.voters) : p.voters[i].voter # l.signer
         /\ ProposalSize(RecordVote(p, l.signer, l.choice, 1, now)) <= PROPOSAL_SPACE

RecordedWithWeightOne(l) ==
    /\ l.res = "Ok"
    /\ LET v == proposals'[l.proposal].voters
       IN  /\ Len(v) = Len(proposals[l.proposal].voters) + 1
           /\ v[Len(v)].voter = l.signer
           /\ v[Len(v)].vote_weight = 1

(* C11: an otherwise valid vote on a proposal weighted by a non-native *)
(* mint is recorded with weight 1, whether or not the caller supplies  *)
(* a token account                                                     *)
C11_PlaceholderWeightAlways ==
    [][ValidVoteOnOtherMint(last') => RecordedWithWeightOne(last')]_vars

(* C11, amended: such a vote is recorded with weight 1, whatever the   *)
(* voter's balance, when the caller supplies a token account; without  *)
(* a token account it fails with TokenAccountRequired and changes      *)
(* nothing                                                             *)
C11_PlaceholderWeight ==
    [][ValidVoteOnOtherMint(last') =>
         IF last'.has_token_account
         THEN RecordedWithWeightOne(last')
         ELSE last'.res = "TokenAccountRequired" /\ UNCHANGED store]_vars

C11_Witness ==
    /\ IsVote(last) /\ last.res = "Ok" /\ last.has_token_account
    /\ last.lamports = MaxLamports
    /\ proposals[last.proposal].token_mint = OtherMint
    /\ proposals[last.proposal].choice_votes = <<1, 0>>

----------------------------------------------------------------------------
(* Properties of stored records *)

(* C12: in every stored proposal choice_votes is as long as choices, that *)
(* length is between 2 and 10, and every voter entry's choice index is    *)
(* less than the number of choices                                        *)
C12_ProposalStructure ==
    \A a \in ProposalAddrs : Stored(a) =>
        LET p == proposals[a] IN
        /\ Len(p.choice_votes) = Len(p.choices)
        /\ Len(p.choices) >= 2 /\ Len(p.choices) <= 10
        /\ \A i \in 1..Len(p.voters) : p.voters[i].choice < Len(p.choices)

C12_Witness ==
    /\ IsVote(last) /\ last.res = "InvalidChoice"
    /\ last.choice = Len(proposals[last.proposal].choices)
    /\ \E i \in 1..Len(proposals[last.proposal].voters) :
          proposals[last.proposal].voters[i].choice
             = Len(proposals[last.proposal].choices) - 1

(* C13: every choice label of every stored proposal is non-empty *)
C13_ChoiceLabelsNonEmpty ==
    \A a \in ProposalAddrs : Stored(a) =>
        \A i \in 1..Len(proposals[a].choices) : proposals[a].choices[i] # <<>>

----------------------------------------------------------------------------
(* Properties of the order of checks *)

PayloadErrors ==
    {"ProposalIdTooLong", "TitleTooLong", "DescriptionTooLong",
     "InvalidChoiceCount", "InvalidVotingPeriod", "VotingStartInPast",
     "MemberAlreadyExists", "MemberNotFound"}

(* A call on an existing group signed by a key other than its authority *)
NonOwnerCall(l) ==
    /\ l.op \in {"create_proposal", "add_group_member", "remove_group_member"}
    /\ groups[l.group] # None
    /\ l.signer # groups[l.group].authority

BreaksPayloadRule(l) ==
    \/ /\ IsCreateProposal(l)
       /\ \/ l.title_len > 200
          \/ l.nchoices < 2 \/ l.nchoices > 10
          \/ l.voting_start >= l.voting_end
          \/ l.voting_start <= now
    \/ l.op = "add_group_member" /\ IsMember(groups[l.group], l.member)
    \/ l.op = "remove_group_member" /\ ~IsMember(groups[l.group], l.member)

(* The proposal account of a create_proposal call can be created: its *)
(* address can be derived and holds no record                         *)
ProposalAccountCreatable(l) ==
    Len(l.proposal_id) >= SEED_PREFIX /\ proposals[TargetOf(l)] = None

----------------------------------------------------------------------------
(* Properties of the length checks of create_proposal *)

(* The part of a create_proposal call that precedes the handler: the  *)
(* group exists, the proposal address is derived and unused, and the  *)
(* signer owns the group                                              *)
ReachesHandler(l) ==
    /\ IsCreateProposal(l)
    /\ groups[l.group] # None
    /\ ProposalAccountCreatable(l)
    /\ l.signer = groups[l.group].authority

RejectedUnchanged(l, err) ==
    /\ l.res = err
    /\ UNCHANGED store
    /\ proposals'[TargetOf(l)] = None

(* C15: create_proposal with a proposal_id longer than 50 is rejected   *)
(* with GroupIdTooLong, with a title longer than 200 with TitleTooLong, *)
(* with a description longer than 1000 with DescriptionTooLong, before  *)
(* any mutation                                                         *)
C15_LengthErrorsAsStated ==
    [][ReachesHandler(last') =>
        /\ Len(last'.proposal_id) > 50 => RejectedUnchanged(last', "GroupIdTooLong")
        /\ (Len(last'.proposal_id) <= 50 /\ last'.title_len > 200)
             => RejectedUnchanged(last', "TitleTooLong")
        /\ (/\ Len(last'.proposal_id) <= 50 /\ last'.title_len <= 200
            /\ last'.description_len > 1000)
             => RejectedUnchanged(last', "DescriptionTooLong")]_vars

(* C15, amended: the error for a proposal_id longer than 50 is          *)
(* ProposalIdTooLong; the three lengths are checked in the order id,    *)
(* title, description, and the first that is too long names the error; *)
(* the rejected call creates no proposal and changes no record          *)
C15_LengthErrors ==
    [][ReachesHandler(last') =>
        /\ Len(last'.proposal_id) > 50
             => RejectedUnchanged(last', "ProposalIdTooLong")
        /\ (Len(last'.proposal_id) <= 50 /\ last'.title_len > 200)
             => RejectedUnchanged(last', "TitleTooLong")
        /\ (/\ Len(last'.proposal_id) <= 50 /\ last'.title_len <= 200
            /\ last'.description_len > 1000)
             => RejectedUnchanged(last', "DescriptionTooLong")]_vars

C15_Witness ==
    /\ IsCreateProposal(last) /\ last.res = "ProposalIdTooLong"
    /\ Len(last.proposal_id) = 51 /\ last.title_len = 201
    /\ groups[last.group] # None
    /\ groups[last.group].proposals = <<>>
    /\ proposals[TargetOf(last)] = None

----------------------------------------------------------------------------
(* Properties of the registry *)

RegistryGroupIdsUnique ==
    registry # None =>
        \A i, j \in 1..Len(registry.groups) :
            i # j => registry.groups[i].group_id # registry.groups[j].group_id

(* The registry lives at one address: initialize on an initialized *)
(* registry is rejected and leaves the registry as it is           *)
OneRegistry ==
    [][(last'.op = "initialize" /\ registry # None)
       => (last'.res = "AlreadyExists" /\ registry' = registry)]_vars

(* C16: there is at most one registry record, and no two entries of its *)
(* groups list carry the same group_id, after any sequence of           *)
(* initialize and create_group calls                                    *)
C16_RegistryInvariant == []RegistryGroupIdsUnique /\ OneRegistry

C16_Witness ==
    /\ last.op = "create_group" /\ last.res = "AlreadyExists"
    /\ registry # None
    /\ Len(registry.groups) = 2
    /\ registry.groups[1].group_id = G2
    /\ registry.groups[2].group_id = G1

----------------------------------------------------------------------------
(* Properties of user accounts *)

(* The telegram_id stored in a user account is the one its address was *)
(* derived from                                                        *)
UserIdMatchesAddress ==
    \A t \in TelegramIds :
        users[UserAddr(t)] # None => users[UserAddr(t)].telegram_id = t

(* The record of a telegram_id, once created, is the only one it ever *)
(* has: a second create_user_account for the id is rejected           *)
OneUserPerId ==
    [][/\ \A ua \in UserAddrs : users[ua] # None => users'[ua] = users[ua]
       /\ (/\ last'.op = "create_user_account"
           /\ users[UserAddr(last'.telegram_id)] # None)
            => last'.res = "AlreadyExists"]_vars

LoginNeverInvalidId ==
    [][last'.op = "login_user" =>
        /\ last'.res # "InvalidTelegramId"
        /\ (/\ users[last'.user_account] # None
            /\ last'.user_account = UserAddr(last'.telegram_id))
             => last'.res = "Ok"
        /\ UNCHANGED store]_vars

(* C17: there is at most one user account per telegram_id and its stored *)
(* telegram_id is the one its address derives from; login_user on an     *)
(* existing account with the id that locates it succeeds (it never fails *)
(* with InvalidTelegramId), and login_user changes no record             *)
C17_UserIdentity == []UserIdMatchesAddress /\ OneUserPerId /\ LoginNeverInvalidId

C17_Witness ==
    /\ last.op = "login_user" /\ last.res = "Ok" /\ last.telegram_id = 2
    /\ users[UserAddr(1)] # None /\ users[UserAddr(2)] # None
    /\ users[UserAddr(1)].wallet_pubkey # users[UserAddr(2)].wallet_pubkey

----------------------------------------------------------------------------
(* Properties of the life of records *)

(* C18: a registry, group, proposal or user account that exists at an *)
(* address exists at that address in the next state, whatever the     *)
(* instruction; remove_group_member shortens the members list of a    *)
(* group that stays                                                   *)
C18_NoDeletion ==
    [][/\ registry # None => registry' # None
       /\ \A a \in GroupAddrs : groups[a] # None => groups'[a] # None
       /\ \A a \in ProposalAddrs : proposals[a] # None => proposals'[a] # None
       /\ \A a \in UserAddrs : users[a] # None => users'[a] # None
       /\ (last'.op = "remove_group_member" /\ last'.res = "Ok")
            => /\ groups'[last'.group] # None
               /\ Len(groups'[last'.group].members)
                    = Len(groups[last'.group].members) - 1]_vars

C18_Witness ==
    /\ last.op = "remove_group_member" /\ last.res = "Ok"
    /\ groups[last.group] # None
    /\ groups[last.group].members = <<>>
    /\ groups[last.group].proposals # <<>>
    /\ registry # None
    /\ \E a \in ProposalAddrs : Stored(a) /\ proposals[a].voters # <<>>
    /\ \E a \in UserAddrs : users[a] # None

(* C19: in an existing group only the proposals and members lists ever  *)
(* change, in an existing proposal only choice_votes and voters: the    *)
(* ids, name, title, descriptions, authority, choices, window, mint and *)
(* creator stay as created                                              *)
C19_ImmutableFields ==
    [][/\ \A a \in GroupAddrs : groups[a] # None =>
            /\ groups'[a] # None
            /\ [groups'[a] EXCEPT !.proposals = groups[a].proposals,
                                  !.members = groups[a].members] = groups[a]
       /\ \A a \in ProposalAddrs : proposals[a] # None =>
            /\ proposals'[a] # None
            /\ [proposals'[a] EXCEPT !.choice_votes = proposals[a].choice_votes,
                                     !.voters = proposals[a].voters]
                 = proposals[a]]_vars

C19_Witness ==
    /\ IsVote(last) /\ last.res = "Ok"
    /\ Len(proposals[last.proposal].voters) = 2
    /\ proposals[last.proposal].choice_votes = <<1, 1>>
    /\ \E a \in GroupAddrs :
          /\ groups[a] # None
          /\ groups[a].members # <<>>
          /\ groups[a].proposals # <<>>

----------------------------------------------------------------------------
(* Properties of the tally *)

IsResults(l) == l.op = "results" /\ l.res = "Ok"

ResultsTarget(l) == ProposalAddr(GroupAddr(l.group_id), l.proposal_id)

(* The tally reports what is stored *)
TallyReportsStored ==
    IsResults(last) =>
        LET p == proposals[ResultsTarget(last)]
            r == last.results
        IN  /\ Len(r.per_choice) = Len(p.choices)
            /\ \A i \in 1..Len(p.choices) :
                  r.per_choice[i] = <<p.choices[i], p.choice_votes[i]>>
            /\ r.total_votes = SumSeq(p.choice_votes)
            /\ r.total_votes = TotalWeight(p)
            /\ r.total_voters = Len(p.voters)
            /\ r.closed = (last.utc_now > p.voting_end)

(* The tally writes nothing, and a tally that follows a tally of the same *)
(* proposal reports the same totals                                      *)
TallyIsPure ==
    [][last'.op = "results" =>
        /\ UNCHANGED <<now, store>>
        /\ (/\ IsResults(last) /\ IsResults(last')
            /\ ResultsTarget(last') = ResultsTarget(last))
             => /\ last'.results.per_choice = last.results.per_choice
                /\ last'.results.total_votes = last.results.total_votes
                /\ last'.results.total_voters = last.results.total_voters]_vars

(* C20: the tally returns the stored per-choice totals, total votes =    *)
(* sum of choice_votes, total voters = number of voter entries, closed = *)
(* (now > voting_end); it changes no record, and repeated between two    *)
(* mutations it returns the same totals                                  *)
C20_TallyPureRead == []TallyReportsStored /\ TallyIsPure

C20_Witness ==
    /\ IsResults(last)
    /\ last.results.total_votes = MaxLamports + 1
    /\ last.results.total_voters = 2
    /\ last.results.per_choice[2][2] = MaxLamports
    /\ last.results.closed
    /\ last.utc_now = proposals[ResultsTarget(last)].voting_end + 1

----------------------------------------------------------------------------
(* Properties of the voting window *)

(* A vote that passes every check other than the window: the proposal *)
(* exists, the choice is one of its choices, the voter has not voted, *)
(* the weight resolves to at least 1 and the entry fits the slot      *)
EligibleVote(l) ==
    /\ IsVote(l)
    /\ Stored(l.proposal)
    /\ LET p == proposals[l.proposal] IN
         /\ l.choice < Len(p.choices)
         /\ \A i \in 1..Len(p.voters) : p.voters[i].voter # l.signer
         /\ p.token_mint = NativeMint => l.lamports > 0
         /\ p.token_mint = OtherMint => l.has_token_account
         /\ ProposalSize(RecordVote(p, l.signer, l.choice, 1, now)) <= PROPOSAL_SPACE

VoteAtWindowEndsAccepted ==
    [][(/\ EligibleVote(last')
        /\ \/ now = proposals[last'.proposal].voting_start
           \/ now = proposals[last'.proposal].voting_end)
       => /\ last'.res = "Ok"
          /\ Len(proposals'[last'.proposal].voters)
               = Len(proposals[last'.proposal].voters) + 1]_vars

StatusRank(st) == IF st = "Scheduled" THEN 0 ELSE IF st = "Open" THEN 1 ELSE 2

LifecycleForward ==
    [][\A a \in ProposalAddrs : Stored(a) =>
          /\ Stored(a)'
          /\ StatusRank(ProposalStatus(proposals'[a], now'))
               >= StatusRank(ProposalStatus(proposals[a], now))]_vars

(* C21: an eligible vote at now = voting_start and at now = voting_end *)
(* is accepted, and as the clock advances a proposal goes from         *)
(* Scheduled to Open to Closed and never back                          *)
C21_WindowInclusive == VoteAtWindowEndsAccepted /\ LifecycleForward

C21_Witness ==
    /\ IsVote(last) /\ last.res = "Ok"
    /\ LET p == proposals[last.proposal] IN
         /\ Len(p.voters) = 2
         /\ p.voters[1].timestamp = p.voting_start
         /\ p.voters[2].timestamp = p.voting_end
         /\ now = p.voting_end

----------------------------------------------------------------------------
(* Properties of slot capacity *)

(* A create_proposal call that passes account validation and every *)
(* check of the handler                                            *)
PassesProposalChecks(l) ==
    /\ ReachesHandler(l)
    /\ Len(l.proposal_id) <= 50 /\ l.title_len <= 200 /\ l.description_len <= 1000
    /\ l.nchoices >= 2 /\ l.nchoices <= 10
    /\ l.voting_start < l.voting_end /\ l.voting_start > now

(* C26: a creation of a group or proposal that passes the stated checks *)
(* (lengths within their ceilings, 2 to 10 choices) is never rejected   *)
(* for size: the record fits its slot                                   *)
C26_CeilingsGuaranteeFit ==
    [][/\ PassesProposalChecks(last')
           => (last'.res = "Ok" /\ ProposalSize(proposals'[TargetOf(last')])
                                     <= PROPOSAL_SPACE)
       /\ (last'.op = "create_group" /\ last'.res = "Ok")
           => GroupSize(groups'[GroupAddr(last'.group_id)]) <= GROUP_SPACE]_vars

----------------------------------------------------------------------------
(* Properties of the registry's capacity *)

(* A create_group call with a fresh, usable group_id and a name and *)
(* description within their ceilings, on an initialized registry    *)
FreshValidGroup(l) ==
    /\ l.op = "create_group"
    /\ registry # None
    /\ Len(l.group_id) <= MAX_SEED_LEN
    /\ groups[GroupAddr(l.group_id)] = None
    /\ l.name_len <= 100 /\ l.description_len <= 500

GroupAppended(l) ==
    /\ l.res = "Ok"
    /\ Len(registry'.groups) = Len(registry.groups) + 1
    /\ registry'.groups[Len(registry'.groups)].group_id = l.group_id
    /\ groups'[GroupAddr(l.group_id)] # None

----------------------------------------------------------------------------
(* Properties of the two records written by create_proposal *)

ListedIn(gs, a) ==
    /\ gs[a.group] # None
    /\ \E i \in 1..Len(gs[a.group].proposals) : gs[a.group].proposals[i].pubkey = a

ListedInGroup(a) == ListedIn(groups, a)

(* C28: create_proposal is two independent single-record writes, the  *)
(* proposal record and then the entry in the group's list: the step   *)
(* that creates the proposal record leaves the group as it was, so a  *)
(* stored proposal missing from its group's list is a reachable state *)
C28_TwoIndependentWrites ==
    [][\A a \in ProposalAddrs :
         (proposals[a] = None /\ proposals'[a] # None) => groups' = groups]_vars

EveryProposalListed == \A a \in ProposalAddrs : Stored(a) => ListedInGroup(a)

BothOrNeither ==
    [][IsCreateProposal(last') =>
         IF last'.res = "Ok"
         THEN /\ proposals[TargetOf(last')] = None
              /\ proposals'[TargetOf(last')] # None
              /\ Len(groups'[last'.group].proposals)
                   = Len(groups[last'.group].proposals) + 1
              /\ ListedIn(groups', TargetOf(last'))
         ELSE UNCHANGED store]_vars

(* C28, amended: create_proposal writes the proposal record and the   *)
(* entry in the group's list in one atomic instruction, both or       *)
(* neither; a stored proposal is listed in its group in every         *)
(* reachable state                                                    *)
C28_CreationAtomic == []EveryProposalListed /\ BothOrNeither

C28_Witness ==
    /\ IsCreateProposal(last) /\ last.res = "Ok"
    /\ Stored(TargetOf(last))
    /\ ListedInGroup(TargetOf(last))
    /\ groups[last.group].members # <<>>

----------------------------------------------------------------------------
(* Properties of proposal addresses *)

Prefix8(id) == SubSeq(id, 1, SEED_PREFIX)

(* A second id with the first 8 bytes of a stored proposal's id is *)
(* rejected and the stored proposal stays as it is                 *)
AliasRejected ==
    [][(/\ IsCreateProposal(last')
        /\ groups[last'.group] # None
        /\ \E a \in AliasAddrs :
              /\ proposals[a] # None
              /\ a.group = last'.group
              /\ Prefix8(proposals[a].proposal_id) = Prefix8(last'.proposal_id))
       => (last'.res = "AlreadyExists" /\ UNCHANGED store)]_vars

(* Ids with different first 8 bytes have different addresses: a stored *)
(* proposal does not stand in the way of an id with another prefix     *)
OtherPrefixAccepted ==
    [][(/\ IsCreateProposal(last')
        /\ groups[last'.group] # None
        /\ last'.signer = groups[last'.group].authority
        /\ \A a \in AliasAddrs :
              (proposals[a] # None /\ a.group = last'.group)
                 => Prefix8(proposals[a].proposal_id) # Prefix8(last'.proposal_id))
       => /\ last'.res = "Ok"
          /\ proposals'[TargetOf(last')].proposal_id = last'.proposal_id
          /\ \A a \in AliasAddrs \ {TargetOf(last')} : proposals'[a] = proposals[a]]_vars

(* C29: two proposal ids of one group that share their first 8 bytes    *)
(* derive the same address: once the first is created, create_proposal  *)
(* for the second fails with AlreadyExists and the first is unchanged;   *)
(* ids that differ within the first 8 bytes never alias                  *)
C29_PrefixCollision == AliasRejected /\ OtherPrefixAccepted

C29_Witness ==
    /\ IsCreateProposal(last) /\ last.res = "AlreadyExists"
    /\ last.proposal_id = PB
    /\ proposals[ProposalAddr(GroupAddr(G1), PA)] # None
    /\ proposals[ProposalAddr(GroupAddr(G1), PA)].proposal_id = PA
    /\ proposals[ProposalAddr(GroupAddr(G1), PC)] # None

----------------------------------------------------------------------------
(* Properties of locating records *)

IsLocate(l) == l.op = "locate"

(* The record the program holds under the identifiers of a lookup *)
HeldFor(l) ==
    IF l.kind = "dao_registry" THEN registry
    ELSE IF l.kind = "group" THEN groups[GroupAddr(l.group_id)]
    ELSE IF l.kind = "proposal"
    THEN (IF ProposalAddr(GroupAddr(l.group_id), l.proposal_id) \in DOMAIN proposals
          THEN proposals[ProposalAddr(GroupAddr(l.group_id), l.proposal_id)]
          ELSE None)
    ELSE users[UserAddr(l.telegram_id)]

(* C30: for each record kind the seed parts the bot uses to locate a    *)
(* record are the seed parts the program creates it under, so a lookup  *)
(* from the identifiers a record was created from finds that record     *)
C30_LookupFindsCreated == IsLocate(last) => last.found = HeldFor(last)

C30_Witness ==
    /\ IsLocate(last) /\ last.kind = "proposal"
    /\ last.found # None
    /\ last.found.proposal_id = last.proposal_id
    /\ last.proposal_id = PB
    /\ registry # None
    /\ users[UserAddr(2)] # None
    /\ groups[GroupAddr(G2)] # None

----------------------------------------------------------------------------
(* Properties of decoding *)

IsDecode(l) == l.op = "decode"

(* The account is one the program writes for the record and it is read *)
(* as its own kind                                                     *)
OwnKind(l) == l.tag = l.kind /\ l.expected = l.kind

RoundTrips(l) == l.out = Decoded(ValOf(l.kind, l.rec))

(* Registries, groups and proposals of a bump other than 0 come back *)
(* as they were written                                              *)
RoundTripByHand ==
    (IsDecode(last) /\ OwnKind(last) /\ last.kind # "user_account" /\ last.rec.bump # 0)
        => RoundTrips(last)

(* C22: for every record kind and every valid record r, the account     *)
(* [discriminator][encode(r)][zero padding] of the kind, read back with *)
(* the bot's decode, gives a record equal to r                          *)
C22_RoundTrip ==
    (IsDecode(last) /\ OwnKind(last) /\ last.rec.bump # 0) => RoundTrips(last)

(* C23: a record whose encoding ends in zero bytes (its last field, the *)
(* bump, is 0) does not come back from its zero-padded account: the     *)
(* decode fails or gives another record                                 *)
C23_TrailingZeroLost ==
    (IsDecode(last) /\ OwnKind(last) /\ last.rec.bump = 0) => ~RoundTrips(last)

C23_Witness ==
    /\ IsDecode(last) /\ OwnKind(last)
    /\ last.kind = "proposal" /\ last.rec.bump = 0
    /\ Len(last.rec.choices) = 10
    /\ last.out = DecodeError

(* C24: decoding an account whose 8-byte discriminator is not that of   *)
(* the expected kind fails with KindMismatch; no record is returned from *)
(* bytes tagged as another kind                                          *)
C24_KindMismatch ==
    (IsDecode(last) /\ last.tag # last.expected) => last.out.err = "KindMismatch"

----------------------------------------------------------------------------
(* Properties of listing the groups *)

IsListing(l) == l.op = "get_all_groups"

RegistryDecodes == ManualDaoRegistry(registry.data).err = "Ok"

ListedGroupUndecodable ==
    \E i \in 1..Len(registry.rec.groups) :
        LET acc == groups[registry.rec.groups[i].pubkey] IN
        acc # None /\ ManualGroup(acc.data).err # "Ok"

(* C25: a decode error is never turned into an empty result: when the    *)
(* registry account exists and its bytes do not decode, or a listed group *)
(* does not decode, the listing reports an error and not an empty or      *)
(* shortened list                                                         *)
C25_DecodeErrorsReported ==
    (IsListing(last) /\ registry # None
        /\ (~RegistryDecodes \/ ListedGroupUndecodable))
      => last.res # "Ok"

----------------------------------------------------------------------------
(* The front end's /createproposal command: handle_create_proposal builds *)
(* the request from its own reading of the clock (utc_now, read at or     *)
(* before the time the program runs the instruction) and                  *)
(* create_solana_proposal sends it, signed by the payer.                  *)

DurationHours == {0, 1, 24}

(* Uuid::new_v4().to_string(): 36 bytes *)
BotProposalId == Rep(36, 97)

(* voting_start = now.timestamp(); voting_end = (now + hours).timestamp() *)
BotWindow(utc_now, duration_hours) ==
    [voting_start |-> utc_now, voting_end |-> utc_now + duration_hours * 3600]

(* The group as create_solana_proposal reads it: by the client's decoder, *)
(* and by hand when that fails                                            *)
BotReadGroup(g) ==
    LET data == NewAccount("group", g).data
        by_client == ClientGroup(data)
    IN  IF by_client.err = "Ok" THEN by_client ELSE ManualGroup(data)

CreateSolanaProposalCheck(group_id) ==
    LET g == groups[GroupAddr(group_id)] IN
    IF g = None THEN "GroupDoesNotExist"
    ELSE IF BotReadGroup(g).err # "Ok" THEN "GroupCorrupted"
    ELSE IF BotReadGroup(g).value.authority # KeyBytes(Payer) THEN "Unauthorized"
    ELSE "Ok"

HandleCreateProposal(group_id, pay, duration_hours, utc_now) ==
    LET win == BotWindow(utc_now, duration_hours)
        chk == IF Len(pay.choices) < 2 \/ Len(pay.choices) > 10
               THEN "BadChoiceCount"
               ELSE CreateSolanaProposalCheck(group_id)
    IN  IF chk # "Ok"
        THEN /\ last' = [op |-> "handle_create_proposal", res |-> chk]
             /\ UNCHANGED <<now, store, bot>>
        ELSE CreateProposal(GroupAddr(group_id), BotProposalId, pay.title,
                            pay.description, pay.choices, win.voting_start,
                            win.voting_end, NativeMint, Payer)

NextPropose ==
    \/ Tick
    \/ Initialize(Payer)
    \/ \E k \in Keys : CreateGroup(G1, NameOk, DescOk, k)
    \/ \E pay \in {PaySmall, PayOneChoice, PayTenChoices}, d \in DurationHours, utc_now \in 0..now :
          HandleCreateProposal(G1, pay, d, utc_now)

SpecPropose == Init /\ [][NextPropose]_vars

----------------------------------------------------------------------------
(* Properties of the front end's tasks *)

Provisioning == {"ensure_user_account", "create_user_account"}

(* C31: the mutex of user_seeds is held only across the lookup or insert: *)
(* no handler holds it while one of its network calls (balance read,      *)
(* account fetch, transaction submission, message send) is in flight.     *)
C31_GuardNotHeldAcrossNetwork ==
    \A k \in Tasks : tasks[k].pc \in NetworkPcs => k \notin user_seeds.guard

(* C32: identity provisioning is idempotent: however ensure_user_account *)
(* and create_user_account calls for one telegram_id interleave, every   *)
(* call returns Ok; none fails because another call created the user     *)
(* account first.                                                        *)
C32_ProvisioningIdempotent ==
    \A k \in Tasks :
        (tasks[k].fn \in Provisioning /\ tasks[k].pc = "done")
        => tasks[k].res = "Ok"

----------------------------------------------------------------------------
(* Properties of the front end's proposal requests *)

SentByBot(l) == l.op = "create_proposal" /\ l.signer = Payer

(* C33: every create_proposal request the front end sends satisfies the *)
(* program's conditions on the window when both read the same clock     *)
(* (voting_start > now and voting_start < voting_end), so the request   *)
(* of the group owner with 2 to 10 choices is accepted.                 *)
C33_BotRequestAccepted ==
    [][SentByBot(last')
       => /\ VotingStartInFuture(last'.voting_start, now)
          /\ ValidVotingPeriod(last'.voting_start, last'.voting_end)
          /\ last'.res = "Ok"]_vars

----------------------------------------------------------------------------
(* Properties of the proposal account's capacity *)

(* The stated conditions of a vote, in the state before the call *)
StatedEligible(l) ==
    /\ IsVote(l)
    /\ Stored(l.proposal)
    /\ LET p == proposals[l.proposal] IN
         /\ VotingActive(p, now)
         /\ ValidChoice(p, l.choice)
         /\ ~HasVoted(p, l.signer)
         /\ ~TokenAccountMissing(p, l.has_token_account)
         /\ VoteWeight(p, l.lamports) > 0

(* C34: a vote on an Open proposal with a valid choice_index, by a voter *)
(* not yet in voters and with a nonzero weight, succeeds however many    *)
(* votes the proposal holds: the fixed account size never rejects it.    *)
C34_EligibleVoteAccepted ==
    [][StatedEligible(last') => last'.res = "Ok"]_vars

----------------------------------------------------------------------------
(* Properties of proposal ids *)

(* What a create_proposal call may end with: success, an error of the    *)
(* program's error list, or an error of account validation or write-back *)
DocumentedOutcomes ==
    PayloadErrors \cup {"Ok", "Unauthorized", "AlreadyExists",
                        "AccountNotInitialized", "AccountDidNotSerialize"}

(* C35: create_proposal with a proposal_id of 1 to 50 bytes derives an *)
(* address and succeeds or fails with a documented error; an id shorter *)
(* than the 8-byte seed prefix causes no undefined failure.             *)
C35_AnyIdUsable ==
    [][(/\ IsCreateProposal(last')
        /\ Len(last'.proposal_id) >= 1
        /\ Len(last'.proposal_id) <= 50)
       => last'.res \in DocumentedOutcomes]_vars

----------------------------------------------------------------------------
(* Properties of closed proposals *)

Closed(a) == Stored(a) /\ now > proposals[a].voting_end

(* Once the clock is past voting_end the proposal stays closed and no step *)
(* changes its counters or its voters                                      *)
ClosedStaysAsIs ==
    [][\A a \in ProposalAddrs :
         Closed(a) =>
            /\ proposals'[a] # None
            /\ now' > proposals'[a].voting_end
            /\ proposals'[a].choice_votes = proposals[a].choice_votes
            /\ proposals'[a].voters = proposals[a].voters]_vars

(* The tally of a closed proposal is the same after every step *)
ClosedTallyFixed ==
    [][\A a \in ProposalAddrs :
         Closed(a) =>
            ProposalResults(proposals'[a], now') = ProposalResults(proposals[a], now)]_vars

(* C36: under the monotonic clock, once now > voting_end no operation *)
(* changes choice_votes or voters of the proposal again, so the tally *)
(* returns the same totals from then on.                              *)
C36_ClosedFrozen == ClosedStaysAsIs /\ ClosedTallyFixed

C36_Witness ==
    \E a \in ProposalAddrs :
        /\ Closed(a)
        /\ Len(proposals[a].voters) = 2
        /\ IsCreateProposal(last)
        /\ last.res = "AlreadyExists"
        /\ TargetOf(last) = a

----------------------------------------------------------------------------
(* Properties of the voters' timestamps *)

(* C37: every entry of voters carries a timestamp inside the window, and *)
(* the window starts after the creation: created_at < voting_start <=    *)
(* timestamp <= voting_end; the timestamps do not decrease along the     *)
(* list.                                                                 *)
C37_VoterTimestamps ==
    \A a \in ProposalAddrs :
        Stored(a) =>
            LET p == proposals[a] IN
            /\ p.created_at < p.voting_start
            /\ \A i \in 1..Len(p.voters) :
                  /\ p.voting_start <= p.voters[i].timestamp
                  /\ p.voters[i].timestamp <= p.voting_end
            /\ \A i, j \in 1..Len(p.voters) :
                  i < j => p.voters[i].timestamp <= p.voters[j].timestamp

C37_Witness ==
    \E a \in ProposalAddrs :
        /\ Stored(a)
        /\ Len(proposals[a].voters) = 2
        /\ proposals[a].voters[1].timestamp = proposals[a].voting_start
        /\ proposals[a].voters[2].timestamp = proposals[a].voting_end
        /\ proposals[a].voting_start < proposals[a].voting_end

----------------------------------------------------------------------------
(* Properties of the references between records *)

(* Every entry of the registry's list names a stored group with the *)
(* entry's group_id and authority                                   *)
RegistryEntriesResolve ==
    registry # None =>
        \A i \in 1..Len(registry.groups) :
            LET gi == registry.groups[i] IN
            /\ gi.pubkey \in DOMAIN groups
            /\ groups[gi.pubkey] # None
            /\ groups[gi.pubkey].group_id = gi.group_id
            /\ groups[gi.pubkey].authority = gi.authority

(* Every stored group has exactly one entry in the registry's list *)
GroupsListedOnce ==
    \A a \in DOMAIN groups :
        groups[a] # None =>
            /\ registry # None
            /\ Cardinality({i \in 1..Len(registry.groups) :
                               registry.groups[i].pubkey = a}) = 1

(* Every entry of a group's proposal list names a stored proposal with *)
(* the entry's proposal_id and the group's group_id                    *)
ProposalEntriesResolve ==
    \A a \in DOMAIN groups :
        groups[a] # None =>
            \A i \in 1..Len(groups[a].proposals) :
                LET pi == groups[a].proposals[i] IN
                /\ pi.pubkey \in DOMAIN proposals
                /\ proposals[pi.pubkey] # None
                /\ proposals[pi.pubkey].proposal_id = pi.proposal_id
                /\ proposals[pi.pubkey].group_id = groups[a].group_id

(* C38: in every reachable state every entry of the registry refers to a *)
(* stored group with the same group_id and authority, every stored group *)
(* is listed exactly once in the registry, and every entry of a group's  *)
(* proposal list refers to a stored proposal with the same proposal_id   *)
(* whose group_id is that group's.                                       *)
C38_BackReferences ==
    RegistryEntriesResolve /\ GroupsListedOnce /\ ProposalEntriesResolve

C38_Witness ==
    /\ registry # None
    /\ Len(registry.groups) = 2
    /\ registry.groups[1].authority # registry.groups[2].authority
    /\ Len(groups[registry.groups[1].pubkey].proposals) = 2
    /\ Len(groups[registry.groups[2].pubkey].proposals) = 1

----------------------------------------------------------------------------
(* Properties of group membership *)

NoDuplicateMembers ==
    \A a \in DOMAIN groups :
        groups[a] # None =>
            \A i, j \in 1..Len(groups[a].members) :
                i # j => groups[a].members[i].pubkey # groups[a].members[j].pubkey

(* A call by the group's authority on a stored group *)
ByAuthority(l) ==
    /\ groups[l.group] # None
    /\ l.signer = groups[l.group].authority

AddPresentRejected ==
    [][(/\ last'.op = "add_group_member"
        /\ ByAuthority(last')
        /\ IsMember(groups[last'.group], last'.member))
       => (last'.res = "MemberAlreadyExists" /\ UNCHANGED store)]_vars

RemoveAbsentRejected ==
    [][(/\ last'.op = "remove_group_member"
        /\ ByAuthority(last')
        /\ ~IsMember(groups[last'.group], last'.member))
       => (last'.res = "MemberNotFound" /\ UNCHANGED store)]_vars

RemoveExact ==
    [][(last'.op = "remove_group_member" /\ last'.res = "Ok") =>
         LET g == groups[last'.group]
             h == groups'[last'.group]
         IN  /\ IsMember(g, last'.member)
             /\ h.members = SelectSeq(g.members,
                                      LAMBDA m : m.pubkey # last'.member)
             /\ Len(h.members) = Len(g.members) - 1
             /\ [h EXCEPT !.members = g.members] = g]_vars

(* C39: no key appears twice in members after any sequence of          *)
(* add_group_member and remove_group_member calls; the authority's add *)
(* of a present member fails with MemberAlreadyExists and its remove   *)
(* of an absent member with MemberNotFound, the group unchanged; a     *)
(* successful remove deletes that member only and keeps the order of   *)
(* the others.                                                         *)
C39_MembersDuplicateFree ==
    /\ []NoDuplicateMembers
    /\ AddPresentRejected
    /\ RemoveAbsentRejected
    /\ RemoveExact

C39_Witness ==
    /\ last.op = "remove_group_member"
    /\ last.res = "Ok"
    /\ Len(groups[last.group].members) = 2
    /\ last.member = "U1"
    /\ groups[last.group].members[1].pubkey = "O"
    /\ groups[last.group].members[2].pubkey = "U2"

----------------------------------------------------------------------------
(* Properties of the counters at their width *)

(* The weights recorded for choice c, summed in 16 bytes: no carry is lost *)
RECURSIVE WeightSum16(_, _, _)
WeightSum16(voters, c, i) ==
    IF i = 0 THEN Rep(16, 0)
    ELSE WrappingAdd(WeightSum16(voters, c, i - 1),
                     IF voters[i].choice = c
                     THEN voters[i].vote_weight \o Rep(8, 0)
                     ELSE Rep(16, 0))

CountersAreSums ==
    \A a \in ProposalAddrs :
        Stored(a) =>
            \A c \in 1..Len(proposals[a].choice_votes) :
                proposals[a].choice_votes[c] \o Rep(8, 0)
                  = WeightSum16(proposals[a].voters, c - 1, Len(proposals[a].voters))

OverflowingVoteRejected ==
    [][(/\ IsVote(last')
        /\ Stored(last'.proposal)
        /\ last'.choice < Len(proposals[last'.proposal].choices)
        /\ Overflows(proposals[last'.proposal].choice_votes[last'.choice + 1],
                     VoteWeightU64(proposals[last'.proposal], last'.lamports)))
       => (last'.res # "Ok" /\ UNCHANGED store)]_vars

(* C40: a vote whose weight would take choice_votes[choice_index] past *)
(* 2^64 - 1 does not succeed with a wrapped counter: it is rejected and *)
(* the proposal is unchanged, so every counter equals the sum of the    *)
(* weights recorded for its choice, without reduction modulo 2^64.      *)
C40_CountersNeverWrap == []CountersAreSums /\ OverflowingVoteRejected

====
